---- MODULE Spec2Model ----
(***************************************************************************)
(* Verification model of fbx_analyzer: the Save-As orchestrator            *)
(* (core/save_as.py: save_scene_graph_as), the reconciliation of the       *)
(* edited SceneNode tree onto the FBX scene (_apply_scene_graph_changes)   *)
(* and the editing operations of gui/app.py that produce the tree.         *)
(*                                                                         *)
(* The FBX SDK scene ("store") is a set of nodes named by their unique id, *)
(* with a parent pointer and an ordered child list per node.  A SceneNode  *)
(* of the editable model is named by a model id (its Python identity).     *)
(***************************************************************************)
EXTENDS Integers, Sequences, FiniteSets, TLC

\* Python's None, for optional uids and optional nodes (uids are positive).
NONE == 0

\* ------------------------------------------------------------------ bounds
MaxStoreNodes == 3     \* nodes of the source scene, root included
MaxEdits == 2          \* editing operations in one session
MaxSaves == 2          \* Save As operations in one session
MaxFieldEdits == 1     \* of these, attribute and transform edits
MaxPruneNodes == 4     \* nodes of the source scene in the removal sessions
MaxRemovals == 3       \* node removals in a removal session
MaxGrowth == 3         \* edits in a session that starts from a lone root
MaxLoads == 2          \* managers one FBXAnalyzer creates
MaxPoses == 2          \* poses of a scene given to a validator
MaxClusters == 1       \* clusters of the skin of its mesh
MaxValidatedNodes == 2 \* nodes of its hierarchy
MaxNamedNodes == 3     \* nodes of a hierarchy whose nodes have names
MaxEditorNodes == 3    \* nodes of the document of an editor session
MaxEditorSteps == 3    \* operations of an editor session
MaxIssues == 3         \* issues of one category report
FirstUid == 101        \* unique id of the first node the SDK creates

\* ----------------------------------------------------------------- helpers
Range(f) == {f[i] : i \in DOMAIN f}

InSeq(seq, x) == \E i \in DOMAIN seq : seq[i] = x

\* list.remove(x): drops the first occurrence.
RECURSIVE ListRemove(_, _)
ListRemove(seq, x) ==
    IF seq = <<>> THEN <<>>
    ELSE IF Head(seq) = x THEN Tail(seq)
    ELSE <<Head(seq)>> \o ListRemove(Tail(seq), x)

\* dict insertion order: a key already present keeps its place.
AppendNew(seq, x) == IF InSeq(seq, x) THEN seq ELSE Append(seq, x)

\* f itself, as an explicit table of its values.
Table(f) == f @@ <<>>

\* The strings of the model that name meshes and layer elements, sorted.
NameOrder == <<"/RootNode/Body", "/RootNode/Head", "normals:0", "uv0:0">>

\* sorted(S) for a set S of these strings.
SortedNames(S) == SelectSeq(NameOrder, LAMBDA name : name \in S)

RECURSIVE SortedSeq(_)
SortedSeq(S) ==
    IF S = {} THEN <<>>
    ELSE LET lo == CHOOSE x \in S : \A y \in S : x <= y
         IN <<lo>> \o SortedSeq(S \ {lo})

\* ------------------------------------------------------- the scene store
\* A store is [root, parent, kids, att, tr]: parent, kids, att and tr are
\* functions over the store's nodes; att is the node attribute ("NoAttr" or a
\* skeleton role), tr stands for the three local transform vectors.

\* FbxNode.AddChild(child): a child that still has a parent is taken from it
\* first, then appended to this node's children.
AddChild(st, p, c) ==
    LET old == st.parent[c]
        k1 == IF old = NONE THEN st.kids
              ELSE [st.kids EXCEPT ![old] = ListRemove(st.kids[old], c)]
    IN [st EXCEPT !.kids = [k1 EXCEPT ![p] = Append(@, c)],
                  !.parent = [@ EXCEPT ![c] = p]]

\* FbxNode.RemoveChild(child): the child leaves the list and has no parent.
RemoveChild(st, p, c) ==
    IF InSeq(st.kids[p], c)
    THEN [st EXCEPT !.kids = [@ EXCEPT ![p] = ListRemove(st.kids[p], c)],
                    !.parent = [@ EXCEPT ![c] = NONE]]
    ELSE st

\* FbxNode.Create(scene, name): a new node with a fresh unique id.
CreateFbxNode(st, uid) ==
    [st EXCEPT !.parent = @ @@ (uid :> NONE),
               !.kids = @ @@ (uid :> <<>>),
               !.att = @ @@ (uid :> "NoAttr"),
               !.tr = @ @@ (uid :> 0)]

\* The hierarchy under the root is a tree: parent pointers and child lists
\* agree, no node is listed twice and the root has no parent.
IsTree(st) ==
    /\ st.parent[st.root] = NONE
    /\ \A n \in DOMAIN st.kids :
          /\ \A i \in DOMAIN st.kids[n] : st.parent[st.kids[n][i]] = n
          /\ \A i, j \in DOMAIN st.kids[n] :
                st.kids[n][i] = st.kids[n][j] => i = j

RECURSIVE Preorder(_, _), PreorderSeq(_, _)
Preorder(kids, n) == <<n>> \o PreorderSeq(kids, kids[n])
PreorderSeq(kids, seq) ==
    IF seq = <<>> THEN <<>>
    ELSE Preorder(kids, Head(seq)) \o PreorderSeq(kids, Tail(seq))

\* _map_scene_nodes.walk: (path, node) for every node under `n`.
RECURSIVE WalkPaths(_, _, _)
WalkPaths(kids, n, path) ==
    {<<path, n>>} \cup
    UNION {WalkPaths(kids, kids[n][i], Append(path, i - 1)) : i \in DOMAIN kids[n]}

\* _map_scene_nodes: the uid index (in dict order) and the path index.
uid_mapping(st) == Preorder(st.kids, st.root)
path_mapping(st) ==
    LET ps == WalkPaths(st.kids, st.root, <<>>)
    IN Table([p \in {x[1] : x \in ps} |-> (CHOOSE x \in ps : x[1] = p)[2]])

\* ------------------------------------------------------- reconciliation
\* The state threaded through _apply_scene_graph_changes:
\*   st        the store            mu       the model nodes (uid fields are
\*   existing  existing_nodes keys           rewritten by sync)
\*   paths     existing_paths       used     used_uids
\*   next      the unique id the SDK gives the next node it creates
\*   created .. transform_updates   the lists of SceneExportDiagnostics
\*   addLog    every AddChild call made, as <<parent, child>>
\*   removeLog every RemoveChild call made, as <<parent, child>>
\*   pruneLog  for every pruned node: the node, its former parent, its
\*             children before the prune and the store right after it
\*   ret, desired   the value sync returns; the desired_children list
skeleton_labels == {"Root", "Limb", "LimbNode", "Effector"}

\* skeleton_types of lines 375-380: each label that resolve_enum_value
\* finds, with the value found ("None" when the SDK holds None under the
\* name); here every label is found.
AllResolved == [label \in skeleton_labels |-> "value"]

\* A translation that clears a skeleton attachment whatever the label is.
ClearsSkeleton(before, attr_type, skeleton_types) ==
    IF before \in skeleton_labels THEN "NoAttr" ELSE before

\* Lines 382-392: the attachment of the node after the call; a skeleton
\* attachment is named by its role.
AttributeAfter(before, attr_type, skeleton_types) ==
    IF attr_type \in DOMAIN skeleton_types /\ skeleton_types[attr_type] # "None"
    THEN attr_type
    ELSE IF before \in skeleton_labels /\ attr_type = "Node" THEN "NoAttr"
    ELSE before

_apply_node_attribute(s, node, attr_type) ==
    LET before == s.st.att[node]
        after == AttributeAfter(before, attr_type, AllResolved)
    IN [s EXCEPT !.st.att[node] = after,
                 !.attribute_updates =
                     Append(@, [node |-> node, attribute_type |-> attr_type,
                                was |-> before, now |-> after])]

_apply_node_transform(s, node, tr) ==
    [s EXCEPT !.st.tr[node] = tr,
              !.transform_updates =
                  Append(@, [node |-> node, transform |-> tr,
                             was |-> s.st.tr[node]])]

LoggedAddChild(s, p, c) ==
    [s EXCEPT !.st = AddChild(s.st, p, c), !.addLog = Append(@, <<p, c>>)]

LoggedRemoveChild(s, p, c) ==
    [s EXCEPT !.st = RemoveChild(s.st, p, c), !.removeLog = Append(@, <<p, c>>)]

_ensure_parent(s, parent_fbx, child) ==
    IF child = parent_fbx THEN s
    ELSE LET current_parent == s.st.parent[child]
         IN IF current_parent = parent_fbx THEN s
            ELSE LET s1 == IF current_parent # NONE
                           THEN LoggedRemoveChild(s, current_parent, child)
                           ELSE s
                 IN LoggedAddChild(s1, parent_fbx, child)

\* The loop of _remove_orphaned_children, from index idx down to 1.
RECURSIVE OrphanLoop(_, _, _, _)
OrphanLoop(s, parent, desired_ids, idx) ==
    IF idx < 1 THEN s
    ELSE LET child == s.st.kids[parent][idx]
             s1 == IF child \notin desired_ids
                   THEN [LoggedRemoveChild(s, parent, child)
                            EXCEPT !.removed_orphans =
                                     Append(@, [node |-> child, parent |-> parent])]
                   ELSE s
         IN OrphanLoop(s1, parent, desired_ids, idx - 1)

_remove_orphaned_children(s, parent, desired_children) ==
    OrphanLoop(s, parent, Range(desired_children), Len(s.st.kids[parent]))

\* A creation that leaves no entry in created_nodes.
CreateUnrecorded(s, m, parent_fbx) ==
    LET uid == s.next
        s1 == [s EXCEPT !.st = CreateFbxNode(s.st, uid), !.next = @ + 1]
        s2 == LoggedAddChild(s1, parent_fbx, uid)
    IN [s2 EXCEPT !.mu[m].uid = uid,
                  !.existing = AppendNew(s2.existing, uid),
                  !.ret = uid]

\* sync, the branch that creates a store node (lines 258-265).
SyncCreate(s, m, parent_fbx) ==
    LET uid == s.next
        s1 == [s EXCEPT !.st = CreateFbxNode(s.st, uid), !.next = @ + 1]
        s2 == LoggedAddChild(s1, parent_fbx, uid)
    IN [s2 EXCEPT !.mu[m].uid = uid,
                  !.existing = AppendNew(s2.existing, uid),
                  !.created = Append(@, [node |-> uid, parent |-> parent_fbx]),
                  !.ret = uid]

\* sync, the branch that reuses a store node (lines 266-270).
SyncReuse(s, m, fbx_node, parent_fbx) ==
    LET previous_parent == s.st.parent[fbx_node]
        s1 == _ensure_parent(s, parent_fbx, fbx_node)
    IN [s1 EXCEPT !.mu[m].uid = fbx_node,
                  !.reparented =
                      IF previous_parent # parent_fbx
                      THEN Append(@, [node |-> fbx_node,
                                      previous_parent |-> previous_parent,
                                      new_parent |-> parent_fbx])
                      ELSE @,
                  !.ret = fbx_node]

\* A resolution that knows the uid index and the root only.
ResolveWithoutPaths(s, m, parent_fbx) ==
    IF s.mu[m].uid # NONE /\ InSeq(s.existing, s.mu[m].uid) THEN s.mu[m].uid
    ELSE IF s.mu[m].parent_uid = NONE /\ parent_fbx = s.st.root THEN s.st.root
    ELSE NONE

\* sync, lines 246-256: the store node a model node resolves to, or NONE.
Resolve(s, m, parent_fbx) ==
    LET node_model == s.mu[m]
        by_uid == IF node_model.uid # NONE /\ InSeq(s.existing, node_model.uid)
                  THEN node_model.uid ELSE NONE
    IN IF by_uid # NONE THEN by_uid
       ELSE IF node_model.parent_uid = NONE /\ parent_fbx = s.st.root
            THEN s.st.root
       ELSE IF node_model.uid # NONE /\ node_model.original_path \in DOMAIN s.paths
            THEN s.paths[node_model.original_path]
       ELSE NONE

RECURSIVE sync(_, _, _), SyncChildren(_, _, _, _, _)
sync(s, m, parent_fbx) ==
    LET node_model == s.mu[m]
        found == Resolve(s, m, parent_fbx)
        s1 == IF found = NONE THEN SyncCreate(s, m, parent_fbx)
              ELSE SyncReuse(s, m, found, parent_fbx)
        fbx_node == s1.ret
        s2 == [s1 EXCEPT
                 !.existing = AppendNew(s1.existing, fbx_node),
                 !.paths = IF node_model.original_path \in DOMAIN @ THEN @
                           ELSE @ @@ (node_model.original_path :> fbx_node),
                 !.used = @ \cup {fbx_node}]
        s3 == _apply_node_attribute(s2, fbx_node, node_model.attribute_type)
        s4 == _apply_node_transform(s3, fbx_node, node_model.transform)
        s5 == SyncChildren(s4, m, fbx_node, 1, <<>>)
        s6 == _remove_orphaned_children(s5, fbx_node, s5.desired)
    IN [s6 EXCEPT !.ret = fbx_node]

\* desired_children = [sync(child_model, fbx_node) for child_model in children]
SyncChildren(s, m, fbx_node, i, desired) ==
    IF i > Len(s.mu[m].children) THEN [s EXCEPT !.desired = desired]
    ELSE LET s1 == sync(s, s.mu[m].children[i], fbx_node)
         IN SyncChildren(s1, m, fbx_node, i + 1, Append(desired, s1.ret))

\* A prune that leaves the children on the pruned node: the variant the
\* property of C8 tells apart from the code.
PruneLeavesChildren(s, node, parent, children) == s

\* _prune_unused_nodes, the inner loop that moves the children up.
RECURSIVE PruneMoveChildren(_, _, _, _)
PruneMoveChildren(s, node, parent, children) ==
    IF children = <<>> THEN s
    ELSE LET child == Head(children)
             s1 == LoggedRemoveChild(s, node, child)
             s2 == LoggedAddChild(s1, parent, child)
             s3 == [s2 EXCEPT !.reparented =
                       Append(@, [node |-> child, previous_parent |-> node,
                                  new_parent |-> parent])]
         IN PruneMoveChildren(s3, node, parent, Tail(children))

\* _prune_unused_nodes, one turn of the loop over existing_nodes.
PruneOne(s, uid) ==
    IF uid = s.st.root \/ uid \in s.used THEN s
    ELSE LET parent == s.st.parent[uid]
         IN IF parent = NONE THEN s
            ELSE LET children == s.st.kids[uid]
                     s1 == PruneMoveChildren(s, uid, parent, children)
                     s2 == LoggedRemoveChild([s1 EXCEPT !.pruned = Append(@, uid)],
                                             parent, uid)
                 IN [s2 EXCEPT !.pruneLog =
                        Append(@, [node |-> uid, parent |-> parent,
                                   children |-> children,
                                   parent_after |-> s2.st.parent,
                                   kids_after |-> s2.st.kids])]

RECURSIVE PruneLoop(_, _)
PruneLoop(s, items) ==
    IF items = <<>> THEN s
    ELSE PruneLoop(PruneOne(s, Head(items)), Tail(items))

_prune_unused_nodes(s) == PruneLoop(s, s.existing)

\* The lists of a fresh SceneExportDiagnostics, and the call logs.
EmptyDiagnostics ==
    [created |-> <<>>, reparented |-> <<>>, removed_orphans |-> <<>>,
     pruned |-> <<>>, attribute_updates |-> <<>>, transform_updates |-> <<>>,
     addLog |-> <<>>, removeLog |-> <<>>, pruneLog |-> <<>>]

DiagFields ==
    {"created", "reparented", "removed_orphans", "pruned",
     "attribute_updates", "transform_updates", "addLog", "removeLog",
     "pruneLog"}

\* _apply_scene_graph_changes(scene, scene_graph, diagnostics) on store st,
\* model mdl (scene_graph = mdl.root), diagnostics d.
_apply_scene_graph_changes(st, mdl, d, next) ==
    LET s0 == [st |-> st, mu |-> mdl.nodes,
               existing |-> uid_mapping(st), paths |-> path_mapping(st),
               used |-> {}, next |-> next, ret |-> NONE, desired |-> <<>>]
              @@ d
        s1 == sync(s0, mdl.root, st.root)
    IN _prune_unused_nodes(s1)

\* ------------------------------------------------- the editable model
\* A model is [root, nodes]: root is a model id or NONE (scene_graph is
\* None), nodes maps the ids of the nodes of the tree to SceneNode records
\* [uid, parent_uid, original_path, children, attribute_type, transform].

\* The labels offered by the attribute boxes that the model explores.
AttributeChoices == {"Node", "LimbNode"}

\* The attribute box of a new node starts at "LimbNode".
default_new_type == "LimbNode"

\* FbxNodeAttribute.GetTypeName(), "None" when the node has no attribute.
TypeName(att) == IF att = "NoAttr" THEN "None" ELSE att

\* SceneGraphInspector.collect: the model of a loaded scene; the model ids
\* are the positions of the nodes in the walk.
collect(st) ==
    LET pre == Preorder(st.kids, st.root)
        paths == path_mapping(st)
        idOf(u) == CHOOSE i \in DOMAIN pre : pre[i] = u
        pathOf(u) == CHOOSE q \in DOMAIN paths : paths[q] = u
    IN [root |-> 1,
        nodes |-> Table([i \in DOMAIN pre |->
            [uid |-> pre[i],
             parent_uid |-> st.parent[pre[i]],
             original_path |-> pathOf(pre[i]),
             children |-> [k \in DOMAIN st.kids[pre[i]] |-> idOf(st.kids[pre[i]][k])],
             attribute_type |-> TypeName(st.att[pre[i]]),
             transform |-> st.tr[pre[i]]]])]

_find_parent(mdl, target) ==
    IF \E q \in DOMAIN mdl.nodes : InSeq(mdl.nodes[q].children, target)
    THEN CHOOSE q \in DOMAIN mdl.nodes : InSeq(mdl.nodes[q].children, target)
    ELSE NONE

\* The nodes n with _is_descendant(ancestor, n).
RECURSIVE Descendants(_, _)
Descendants(mdl, ancestor) ==
    {ancestor} \cup
    UNION {Descendants(mdl, mdl.nodes[ancestor].children[i]) :
              i \in DOMAIN mdl.nodes[ancestor].children}

_is_descendant(mdl, ancestor, candidate) == candidate \in Descendants(mdl, ancestor)

\* _rebuild_parent_links, which _render_scene_tree runs after every edit
\* that leaves a scene graph.
_rebuild_parent_links(mdl) ==
    IF mdl.root = NONE THEN mdl
    ELSE [mdl EXCEPT !.nodes = Table([i \in DOMAIN mdl.nodes |->
             [mdl.nodes[i] EXCEPT !.parent_uid =
                 IF i = mdl.root THEN NONE
                 ELSE mdl.nodes[_find_parent(mdl, i)].uid]])]

_add_child_node(mdl, parent, new, label) ==
    _rebuild_parent_links(
        [mdl EXCEPT !.nodes =
            [@ EXCEPT ![parent].children = Append(@, new)] @@
            (new :> [uid |-> NONE, parent_uid |-> mdl.nodes[parent].uid,
                     original_path |-> <<>>, children |-> <<>>,
                     attribute_type |-> label, transform |-> 0])])

\* parent.children.remove(node); target.children.append(node)
MoveNode(mdl, node, parent, target) ==
    LET n1 == [mdl.nodes EXCEPT ![parent].children = ListRemove(mdl.nodes[parent].children, node)]
    IN _rebuild_parent_links(
           [mdl EXCEPT !.nodes = [n1 EXCEPT ![target].children = Append(@, node)]])

\* A check that lets a node go under any node but itself.
AnyTarget(mdl, node, target) ==
    /\ node # target
    /\ _find_parent(mdl, node) # NONE

\* The early returns of _reparent_to_target (lines 900-910).
CanReparent(mdl, node, target) ==
    /\ node # target
    /\ ~_is_descendant(mdl, node, target)
    /\ _find_parent(mdl, node) # NONE

_reparent_to_target(mdl, node, target) ==
    IF CanReparent(mdl, node, target)
    THEN MoveNode(mdl, node, _find_parent(mdl, node), target)
    ELSE mdl

CanPromote(mdl, node) ==
    /\ _find_parent(mdl, node) # NONE
    /\ _find_parent(mdl, _find_parent(mdl, node)) # NONE

_promote_selected(mdl, node) ==
    LET parent == _find_parent(mdl, node)
    IN MoveNode(mdl, node, parent, _find_parent(mdl, parent))

Restrict(f, S) == Table([x \in S |-> f[x]])

_remove_node_promote_children(mdl, node) ==
    LET parent == _find_parent(mdl, node)
        kids == mdl.nodes[node].children
        rest == DOMAIN mdl.nodes \ {node}
    IN IF parent = NONE
       THEN IF kids = <<>>
            THEN [root |-> NONE, nodes |-> Restrict(mdl.nodes, {})]
            ELSE LET new_root == Head(kids)
                 IN _rebuild_parent_links(
                        [root |-> new_root,
                         nodes |-> Restrict(
                             [mdl.nodes EXCEPT ![new_root].children = @ \o Tail(kids)],
                             rest)])
       ELSE _rebuild_parent_links(
                [mdl EXCEPT !.nodes = Restrict(
                    [@ EXCEPT ![parent].children = ListRemove(mdl.nodes[parent].children, node) \o kids],
                    rest)])

_apply_attribute_change(mdl, node, new_type) ==
    _rebuild_parent_links([mdl EXCEPT !.nodes[node].attribute_type = new_type])

_apply_transform_edit(mdl, node, vector) ==
    _rebuild_parent_links([mdl EXCEPT !.nodes[node].transform = vector])

\* ------------------------------------------------ files, load and export
\* An FBX file holds the hierarchy under the root: [root, kids, att, tr].
ParentIn(kids, n) ==
    IF \E q \in DOMAIN kids : InSeq(kids[q], n)
    THEN CHOOSE q \in DOMAIN kids : InSeq(kids[q], n)
    ELSE NONE

\* The scene shapes: parent vectors p of the nodes 2..n in walk order (node 1
\* is the root, the parent of node i is an ancestor-or-self of node i-1).
RECURSIVE AncSelf(_, _)
AncSelf(p, i) == IF i = 1 THEN {1} ELSE {i} \cup AncSelf(p, p[i])

Shapes(n) ==
    {p \in [2..n -> 1..n] : \A i \in 2..n : p[i] < i /\ p[i] \in AncSelf(p, i - 1)}

\* The source file of shape p: unique ids FirstUid.., no attributes, default
\* transforms.
SourceFile(n, p) ==
    LET U(i) == FirstUid + i - 1
    IN [root |-> U(1),
        kids |-> [u \in {U(i) : i \in 1..n} |->
                    LET i == u - FirstUid + 1
                        cs == SortedSeq({j \in 2..n : p[j] = i})
                    IN [k \in DOMAIN cs |-> U(cs[k])]],
        att |-> [u \in {U(i) : i \in 1..n} |-> "NoAttr"],
        tr |-> [u \in {U(i) : i \in 1..n} |-> 0]]

\* sdk.load_scene: the scene of a file.  The unique ids the importer gives
\* the nodes are the SDK's choice: the ids the file was written with, or
\* (fresh) new ids base, base+1, .. in walk order.
load_scene(f, fresh, base) ==
    LET pre == Preorder(f.kids, f.root)
        idx(u) == CHOOSE i \in DOMAIN pre : pre[i] = u
        new(u) == IF fresh THEN base + idx(u) - 1 ELSE u
        old(v) == IF fresh THEN pre[v - base + 1] ELSE v
        nodes == {new(u) : u \in Range(pre)}
    IN [root |-> new(f.root),
        parent |-> Table([v \in nodes |->
                      LET q == ParentIn(f.kids, old(v))
                      IN IF q = NONE THEN NONE ELSE new(q)]),
        kids |-> Table([v \in nodes |->
                    [k \in DOMAIN f.kids[old(v)] |-> new(f.kids[old(v)][k])]]),
        att |-> Table([v \in nodes |-> f.att[old(v)]]),
        tr |-> Table([v \in nodes |-> f.tr[old(v)]])]

\* sdk.save_scene: the file of a scene, the hierarchy under its root.
save_scene(st) ==
    LET nodes == Range(Preorder(st.kids, st.root))
    IN [root |-> st.root,
        kids |-> Restrict(st.kids, nodes),
        att |-> Restrict(st.att, nodes),
        tr |-> Restrict(st.tr, nodes)]

VARIABLES
    model,      \* the document's scene graph
    store,      \* the scene of the last load
    file,       \* the file at document.path
    fileOK,     \* the last export wrote a tree
    diag,       \* the SceneExportDiagnostics of the last reconciliation
    nextUid,    \* the unique id the SDK gives out next
    nextNode,   \* the model id of the next SceneNode created
    edits,      \* editing operations done
    fieldEdits, \* attribute and transform edits done
    saves,      \* reconciliations against a loaded file done
    rphase,     \* "editing", "reconciled" or "again" (reconciled twice)
    pre,        \* what held when the last reconciliation began
    prevLens    \* the lengths of the diagnostics lists before the second run

varsRecon ==
    <<model, store, file, fileOK, diag, nextUid, nextNode, edits, fieldEdits, saves,
      rphase, pre, prevLens>>

\* The state of one call of save_scene_graph_as.
VARIABLES
    pc,               \* the phase the call is about to run, or its outcome
    phases,           \* the phases the call has run, in order
    source_path,      \* the arguments of the call
    target_path,
    scene_graph_given,  \* scene_graph is not None
    force_rebuild,
    scene,            \* the content of the scene in memory
    report,           \* the most recent validation report of that scene
    baseline_metrics,
    info,             \* mode, reports and repairs of the diagnostics
    dest,             \* the destination file: "absent", "copied", "exported"
    managers,         \* FBX managers created and destroyed
    error,            \* the exception the call raised
    roundtrip         \* what round_trip_check met

varsCall ==
    <<pc, phases, source_path, target_path, scene_graph_given, force_rebuild,
      scene, report, baseline_metrics, info, dest, managers, error, roundtrip>>

\* The SDK's managers, and what stands beside the call.
VARIABLES
    handles,          \* every FbxManager created: its owner, its Destroy calls
    analyzer,         \* the FBXAnalyzer of the document
    dest_file,        \* the content of the file at the destination path
    aliased,          \* the destination path names the source file
    canonical,        \* the CanonicalSettings of the call's SceneValidator
    repaired,         \* the scene AutoRepair began with, the report it left
    probe,            \* a category report or two SceneMetrics, and what
                      \* status and diff make of them
    editor            \* the DocumentPane: the marked reparent target, the
                      \* dirty flag and the path of the document, the names
                      \* of the model nodes, the last operation

varsLib == <<analyzer, probe, editor>>
varsDisk == <<dest_file, aliased>>
varsValidator == <<canonical, repaired>>

vars == <<varsRecon, varsCall, handles, varsLib, varsDisk, varsValidator>>

DiagOf(s) == [f \in DiagFields |-> s[f]]
Lens(d) == [f \in DiagFields |-> Len(d[f])]

\* What the claims ask of the state a reconciliation began in.
PreOf(st, mdl) ==
    [loaded |-> st,
     allResolved |-> \A m \in DOMAIN mdl.nodes : mdl.nodes[m].uid \in DOMAIN st.kids,
     sameStructure |->
        /\ mdl.nodes[mdl.root].uid = st.root
        /\ \A m \in DOMAIN mdl.nodes :
              /\ mdl.nodes[m].uid \in DOMAIN st.kids
              /\ st.kids[mdl.nodes[m].uid] =
                   [k \in DOMAIN mdl.nodes[m].children |->
                       mdl.nodes[mdl.nodes[m].children[k]].uid],
     changedAttr |-> {m \in DOMAIN mdl.nodes :
                        mdl.nodes[m].uid \in DOMAIN st.kids /\
                        TypeName(st.att[mdl.nodes[m].uid]) # mdl.nodes[m].attribute_type},
     changedTransform |-> {m \in DOMAIN mdl.nodes :
                        mdl.nodes[m].uid \in DOMAIN st.kids /\
                        st.tr[mdl.nodes[m].uid] # mdl.nodes[m].transform},
     model |-> mdl]

\* ------------------------------------------- validation and its reports
\* ValidationReport.categories, in the order validate fills them.
\* A report that leaves out the constraints.
SevenCategories ==
    <<"globals", "nodes", "geometry", "skin", "materials", "animation", "connections">>

Categories ==
    <<"globals", "nodes", "geometry", "skin", "materials", "animation",
      "constraints", "connections">>

\* A key under which every severity is as high as any other.
EqualOrder(value) == 0

_severity_order(value) ==
    CASE value = "PASS" -> 0
      [] value = "WARN" -> 1
      [] value = "FAIL" -> 2
      [] OTHER -> 2

\* Python's max(values, key=_severity_order): the first of the values whose
\* key no other value exceeds.
RECURSIVE MaxBySeverity(_, _)
MaxBySeverity(values, best) ==
    IF values = <<>> THEN best
    ELSE MaxBySeverity(Tail(values),
                       IF _severity_order(Head(values)) > _severity_order(best)
                       THEN Head(values) ELSE best)

\* ValidationCategoryReport.status of a list of issues.
CategoryStatus(issues) ==
    IF issues = <<>> THEN "PASS"
    ELSE MaxBySeverity([k \in DOMAIN Tail(issues) |-> Tail(issues)[k].severity],
                       issues[1].severity)

\* ValidationCategoryReport.add_issue: fix_applied "" is None.
add_issue(issues, severity, code, object_path) ==
    Append(issues, [severity |-> severity, code |-> code,
                    object_path |-> object_path, fix_applied |-> ""])

\* ValidationCategoryReport.status of category c of report rep.
status(rep, c) == CategoryStatus(rep.categories[c])

\* A readiness that a warning blocks as well.
WarnBlocks(rep) == \A k \in DOMAIN Categories : status(rep, Categories[k]) = "PASS"

export_ready(rep) == \A k \in DOMAIN Categories : status(rep, Categories[k]) # "FAIL"

status_summary(rep) == {<<Categories[k], status(rep, Categories[k])>> : k \in DOMAIN Categories}

\* ------------------------------------------------------------- metrics
\* The scalar fields of SceneMetrics, in the order diff compares them.
ScalarMetrics ==
    <<"node_count", "material_count", "texture_count", "skin_cluster_count",
      "bind_pose_count", "anim_stack_count", "anim_curve_count">>

\* dict.get(key): <<>> is None, <<v>> the value v.
Get(dict, key) == IF key \in DOMAIN dict THEN <<dict[key]>> ELSE <<>>

\* A comparison of the layers that looks only at those the left mesh has.
RECURSIVE OwnLayers(_, _, _, _)
OwnLayers(key, layer_keys, lhs, rhs) ==
    IF layer_keys = <<>> THEN <<>>
    ELSE (IF /\ Head(layer_keys) \in DOMAIN lhs.layer_elements
             /\ Get(lhs.layer_elements, Head(layer_keys))
                  # Get(rhs.layer_elements, Head(layer_keys))
          THEN <<[metric |-> <<"mesh", key, "layer", Head(layer_keys)>>,
                  expected |-> Get(rhs.layer_elements, Head(layer_keys)),
                  actual |-> Get(lhs.layer_elements, Head(layer_keys))]>>
          ELSE <<>>)
         \o OwnLayers(key, Tail(layer_keys), lhs, rhs)

\* The entries diff records for the layers of one mesh, keys sorted.
RECURSIVE DiffLayers(_, _, _, _)
DiffLayers(key, layer_keys, lhs, rhs) ==
    IF layer_keys = <<>> THEN <<>>
    ELSE LET layer_key == Head(layer_keys)
             left_val == Get(lhs.layer_elements, layer_key)
             right_val == Get(rhs.layer_elements, layer_key)
         IN (IF left_val # right_val
             THEN <<[metric |-> <<"mesh", key, "layer", layer_key>>,
                     expected |-> right_val, actual |-> left_val]>>
             ELSE <<>>)
            \o DiffLayers(key, Tail(layer_keys), lhs, rhs)

\* The entries diff records for the meshes, keys sorted.
RECURSIVE DiffMeshes(_, _, _)
DiffMeshes(mesh_keys, self, other) ==
    IF mesh_keys = <<>> THEN <<>>
    ELSE LET key == Head(mesh_keys)
             lhs == Get(self.mesh_metrics, key)
             rhs == Get(other.mesh_metrics, key)
         IN (IF lhs = <<>> \/ rhs = <<>>
             THEN <<[metric |-> <<"mesh", key>>, expected |-> rhs, actual |-> lhs]>>
             ELSE (IF lhs[1].control_points # rhs[1].control_points
                   THEN <<[metric |-> <<"mesh", key, "control_points">>,
                           expected |-> rhs[1].control_points,
                           actual |-> lhs[1].control_points]>>
                   ELSE <<>>)
               \o (IF lhs[1].polygon_count # rhs[1].polygon_count
                   THEN <<[metric |-> <<"mesh", key, "polygon_count">>,
                           expected |-> rhs[1].polygon_count,
                           actual |-> lhs[1].polygon_count]>>
                   ELSE <<>>)
               \o DiffLayers(key,
                             SortedNames(DOMAIN lhs[1].layer_elements
                                         \cup DOMAIN rhs[1].layer_elements),
                             lhs[1], rhs[1]))
            \o DiffMeshes(Tail(mesh_keys), self, other)

\* The entries diff records for the scalar fields.
RECURSIVE DiffScalars(_, _, _)
DiffScalars(fields, self, other) ==
    IF fields = <<>> THEN <<>>
    ELSE (IF self[Head(fields)] # other[Head(fields)]
          THEN <<[metric |-> <<Head(fields)>>, expected |-> other[Head(fields)],
                  actual |-> self[Head(fields)]]>>
          ELSE <<>>)
         \o DiffScalars(Tail(fields), self, other)

\* A diff that takes the receiver for the expected side.
SwappedDiff(self, other) ==
    DiffScalars(ScalarMetrics, other, self)
    \o DiffMeshes(SortedNames(DOMAIN self.mesh_metrics \cup DOMAIN other.mesh_metrics),
                  other, self)

\* SceneMetrics.diff: the list of {metric, expected, actual}.
diff(self, other) ==
    DiffScalars(ScalarMetrics, self, other)
    \o DiffMeshes(SortedNames(DOMAIN self.mesh_metrics \cup DOMAIN other.mesh_metrics),
                  self, other)

\* SceneMetrics(): the defaults of the dataclass.
SceneMetrics ==
    [node_count |-> 0, mesh_metrics |-> <<>>, material_count |-> 0,
     texture_count |-> 0, skin_cluster_count |-> 0, bind_pose_count |-> 0,
     anim_stack_count |-> 0, anim_curve_count |-> 0]

\* ------------------------------------------------- the scene's content
\* What a scene holds besides its hierarchy: the global settings, the poses
\* (is a bind pose, number of entries) and one mesh, on a node under the
\* root at MeshPath, with its polygon count and the clusters of its skin
\* (has a link, has a transform matrix, has a link matrix).
MeshPath == "/RootNode/Body"

Poses(most) ==
    UNION {[1..n -> {[bind |-> TRUE, count |-> 0], [bind |-> TRUE, count |-> 1],
                     [bind |-> FALSE, count |-> 1]}] : n \in 0..most}

Clusters(most) ==
    UNION {[1..n -> [link : BOOLEAN, matrix : BOOLEAN, link_matrix : BOOLEAN]] :
              n \in 0..most}

NoMesh == [present |-> FALSE, polygon_count |-> 0, skinned |-> FALSE, clusters |-> <<>>]

Meshes(most) ==
    {NoMesh} \cup
    [present : {TRUE}, polygon_count : {0, 1}, skinned : {FALSE}, clusters : {<<>>}] \cup
    [present : {TRUE}, polygon_count : {1}, skinned : {TRUE}, clusters : Clusters(most)]

\* The scenes a validator is given.
Scenes(maxPoses, maxClusters) ==
    [axis : {"MayaYUp", "MayaZUp"}, unit : {"cm", "m"},
     time_mode : {"eFrames30", "eCustom"}, custom_rate : {30, 24},
     time_span : {<<0, 10>>, <<5, 5>>},
     poses : Poses(maxPoses), mesh : Meshes(maxClusters)]

\* The scenes the files of the calls hold: the canonical globals but for the
\* axis system, at most one bind pose, at most a mesh without polygons.
LoadedScenes ==
    {[axis |-> a, unit |-> "cm", time_mode |-> "eFrames30", custom_rate |-> 30,
      time_span |-> <<0, 10>>, poses |-> p, mesh |-> m] :
        a \in {"MayaYUp", "MayaZUp"},
        p \in {<<>>, <<[bind |-> TRUE, count |-> 0]>>, <<[bind |-> TRUE, count |-> 1]>>},
        m \in {NoMesh, [NoMesh EXCEPT !.present = TRUE]}}

\* What the exporter and the importer make of a scene: the scene, or the
\* scene with another axis system, or the scene without its poses.
ReloadedScenes(sc) ==
    {sc, [sc EXCEPT !.axis = "MayaZUp"], [sc EXCEPT !.poses = <<>>]}

\* A scene with nothing to report but a missing bind pose.
PlainScene ==
    [axis |-> "MayaYUp", unit |-> "cm", time_mode |-> "eFrames30", custom_rate |-> 30,
     time_span |-> <<0, 10>>, poses |-> <<>>, mesh |-> NoMesh]

\* CanonicalSettings.default(): an SDK build that lacks a name yields None
\* ("None"); time_span None is <<>>.
default ==
    [axis_system |-> "MayaYUp", system_unit |-> "cm", time_mode |-> "eFrames30",
     frame_rate |-> 30, time_span |-> <<>>]

\* The canonical settings a SceneValidator is built with: the default, the
\* default of a build without the names, and a custom time mode.
Canonicals ==
    {default,
     [default EXCEPT !.axis_system = "None", !.system_unit = "None",
                     !.time_mode = "None"],
     [default EXCEPT !.time_mode = "eCustom"]}

\* A validate that takes the canonical time span from any scene.
CaptureAnySpan(canon, sc) ==
    IF canon.time_span = <<>> THEN [canon EXCEPT !.time_span = sc.time_span]
    ELSE canon

\* SceneValidator.validate, lines 260-274: a canonical time span that is
\* None is taken from a scene whose span is valid.
validate_canonical(canon, sc) ==
    IF canon.time_span = <<>> /\ sc.time_span[1] < sc.time_span[2]
    THEN [canon EXCEPT !.time_span = sc.time_span]
    ELSE canon

ValidateGlobals(sc, canon) ==
    LET i1 == IF canon.axis_system # "None" /\ sc.axis # canon.axis_system
              THEN add_issue(<<>>, "FAIL", "globals.axis", "<globals>") ELSE <<>>
        i2 == IF canon.system_unit # "None" /\ sc.unit # canon.system_unit
              THEN add_issue(i1, "FAIL", "globals.system_unit", "<globals>") ELSE i1
        i3 == IF canon.time_mode # "None" /\ sc.time_mode # canon.time_mode
              THEN add_issue(i2, "FAIL", "globals.time_mode", "<globals>") ELSE i2
        i4 == IF canon.time_mode = "eCustom" /\ sc.custom_rate # canon.frame_rate
              THEN add_issue(i3, "FAIL", "globals.frame_rate", "<globals>") ELSE i3
    IN IF sc.time_span[1] >= sc.time_span[2]
       THEN add_issue(i4, "FAIL", "globals.time_span", "<globals>") ELSE i4

\* ValidateNodesAndTransforms: a node other than the root with no attribute.
RECURSIVE MissingAttributes(_, _, _)
MissingAttributes(st, nodes, issues) ==
    IF nodes = <<>> THEN issues
    ELSE MissingAttributes(st, Tail(nodes),
            IF Head(nodes) # st.root /\ st.att[Head(nodes)] = "NoAttr"
            THEN add_issue(issues, "WARN", "nodes.missing_attribute",
                           ToString(Head(nodes)))
            ELSE issues)

ValidateNodesAndTransforms(st) ==
    MissingAttributes(st, Preorder(st.kids, st.root), <<>>)

\* ValidateGeometry: the issues, and the MeshMetrics by node path.
ValidateGeometry(sc) ==
    [issues |-> IF sc.mesh.present /\ sc.mesh.polygon_count <= 0
                THEN add_issue(<<>>, "FAIL", "geometry.polygons", MeshPath)
                ELSE <<>>,
     mesh_metrics |->
        IF sc.mesh.present
        THEN [k \in {MeshPath} |->
                [control_points |-> 1, polygon_count |-> sc.mesh.polygon_count,
                 layer_elements |-> <<>>]]
        ELSE <<>>]

\* ValidateSkinAndPoses, lines 541-592: the clusters of the mesh's skin.
RECURSIVE ClusterIssues(_, _)
ClusterIssues(clusters, issues) ==
    IF clusters = <<>> THEN issues
    ELSE LET c == Head(clusters)
             i1 == IF ~c.link
                   THEN add_issue(issues, "FAIL", "skin.cluster_link", MeshPath)
                   ELSE issues
             i2 == IF ~c.matrix
                   THEN add_issue(i1, "FAIL", "skin.cluster_matrix", MeshPath)
                   ELSE i1
             i3 == IF ~c.link_matrix
                   THEN add_issue(i2, "FAIL", "skin.cluster_link_matrix", MeshPath)
                   ELSE i2
         IN ClusterIssues(Tail(clusters), i3)

\* Lines 594-610: the poses.
RECURSIVE PoseIssues(_, _)
PoseIssues(poses, issues) ==
    IF poses = <<>> THEN issues
    ELSE PoseIssues(Tail(poses),
            IF Head(poses).bind /\ Head(poses).count = 0
            THEN add_issue(issues, "FAIL", "skin.bind_pose_empty", "<poses>")
            ELSE issues)

\* A validator that asks for a bind pose only when a mesh has a skin.
BindPoseForSkinOnly(sc) ==
    LET skin == IF ~(sc.mesh.present /\ sc.mesh.skinned) THEN <<>>
                ELSE IF sc.mesh.clusters = <<>>
                     THEN add_issue(<<>>, "FAIL", "skin.no_clusters", MeshPath)
                     ELSE ClusterIssues(sc.mesh.clusters, <<>>)
        posed == PoseIssues(sc.poses, skin)
    IN IF sc.mesh.present /\ sc.mesh.skinned /\ ~\E k \in DOMAIN sc.poses : sc.poses[k].bind
       THEN add_issue(posed, "FAIL", "skin.bind_pose_missing", "<poses>")
       ELSE posed

ValidateSkinAndPoses(sc) ==
    LET skin == IF ~(sc.mesh.present /\ sc.mesh.skinned) THEN <<>>
                ELSE IF sc.mesh.clusters = <<>>
                     THEN add_issue(<<>>, "FAIL", "skin.no_clusters", MeshPath)
                     ELSE ClusterIssues(sc.mesh.clusters, <<>>)
        posed == PoseIssues(sc.poses, skin)
        bind_pose_found == \E k \in DOMAIN sc.poses : sc.poses[k].bind
    IN IF ~bind_pose_found
       THEN add_issue(posed, "FAIL", "skin.bind_pose_missing", "<poses>")
       ELSE posed

\* ValidateAnimation: the scene has no animation stack.
ValidateAnimation == add_issue(<<>>, "WARN", "animation.no_stacks", "<animation>")

\* ValidateConnections: a skinned mesh none of whose clusters has a link.
ValidateConnections(sc) ==
    IF /\ sc.mesh.present /\ sc.mesh.skinned
       /\ ~\E k \in DOMAIN sc.mesh.clusters : sc.mesh.clusters[k].link
    THEN add_issue(<<>>, "FAIL", "connections.mesh_skin_links", MeshPath)
    ELSE <<>>

\* collect_scene_metrics: the scene has no materials, textures or animation.
collect_scene_metrics(st, sc, mesh_metrics) ==
    [SceneMetrics EXCEPT
        !.node_count = Len(Preorder(st.kids, st.root)),
        !.mesh_metrics = mesh_metrics,
        !.skin_cluster_count =
            IF sc.mesh.present /\ sc.mesh.skinned THEN Len(sc.mesh.clusters) ELSE 0,
        !.bind_pose_count = Cardinality({k \in DOMAIN sc.poses : sc.poses[k].bind})]

\* SceneValidator.validate on the scene with content sc and hierarchy st.
validate(canon, sc, st) ==
    LET geometry == ValidateGeometry(sc)
        found == [c \in Range(Categories) |->
                    CASE c = "globals" ->
                            ValidateGlobals(sc, validate_canonical(canon, sc))
                      [] c = "nodes" -> ValidateNodesAndTransforms(st)
                      [] c = "geometry" -> geometry.issues
                      [] c = "skin" -> ValidateSkinAndPoses(sc)
                      [] c = "animation" -> ValidateAnimation
                      [] c = "connections" -> ValidateConnections(sc)
                      [] OTHER -> <<>>]
    IN [present |-> TRUE,
        categories |-> Table(found),
        repairs |-> <<>>,
        metrics |-> collect_scene_metrics(st, sc, geometry.mesh_metrics)]

\* ------------------------------------------------------------ AutoRepair
\* FbxTime.GetOneFrameValue(), the stop of the fallback time span.
GetOneFrameValue == 1

\* A repair that marks the issue and logs nothing.
FixedUnlogged(r, category, k, action) ==
    [r EXCEPT !.report.categories[category][k].fix_applied = action]

\* issue.fix_applied = action; report.repairs.append({object, action}).
Fixed(r, category, k, action) ==
    [r EXCEPT !.report.categories[category][k].fix_applied = action,
              !.report.repairs =
                  Append(r.report.repairs,
                         [object |-> r.report.categories[category][k].object_path,
                          action |-> action])]

\* A repair that marks every issue of the report, whatever its code.
MarkEveryIssue(r, canon, k) ==
    [r EXCEPT !.report.categories =
        Table([c \in DOMAIN r.report.categories |->
                 [i \in DOMAIN r.report.categories[c] |->
                     [r.report.categories[c][i] EXCEPT !.fix_applied = "marked"]]])]

\* Lines 772-861: the issues of category globals, in order, from the k-th;
\* r holds the scene and the report as they are so far.
RECURSIVE RepairGlobals(_, _, _)
RepairGlobals(r, canon, k) ==
    IF k > Len(r.report.categories["globals"]) THEN r
    ELSE LET issue == r.report.categories["globals"][k]
             sc == r.scene
             next ==
               IF issue.code = "globals.axis" /\ canon.axis_system # "None"
               THEN Fixed([r EXCEPT !.scene.axis = canon.axis_system],
                          "globals", k, "Axis system reset to canonical orientation.")
               ELSE IF issue.code = "globals.system_unit" /\ canon.system_unit # "None"
               THEN Fixed([r EXCEPT !.scene.unit = canon.system_unit],
                          "globals", k, "System unit reset to canonical scale.")
               ELSE IF issue.code = "globals.time_mode" /\ canon.time_mode # "None"
               THEN Fixed([r EXCEPT !.scene.time_mode = canon.time_mode,
                                    !.scene.custom_rate =
                                        IF canon.time_mode = "eCustom"
                                        THEN canon.frame_rate ELSE sc.custom_rate],
                          "globals", k, "Time mode reset to canonical mode.")
               ELSE IF issue.code = "globals.frame_rate" /\ canon.time_mode = "eCustom"
               THEN Fixed([r EXCEPT !.scene.custom_rate = canon.frame_rate],
                          "globals", k, "Custom frame rate synced to canonical value.")
               ELSE IF issue.code = "globals.time_span"
               THEN Fixed([r EXCEPT !.scene.time_span =
                                        IF canon.time_span # <<>>
                                        THEN canon.time_span
                                        ELSE <<0, GetOneFrameValue>>],
                          "globals", k, "Global time span reset to a valid range.")
               ELSE r
         IN RepairGlobals(next, canon, k + 1)

\* ------------------------------------------------------ object paths
\* A hierarchy of named nodes is [root, parent, name]: parent[n] is the
\* parent of node n (NONE for the root) and name[n] is GetName(); the
\* children of a node are in the order of their numbers.  No name holds
\* a "/".
NodeNames == {"RootNode", "Body", ""}

NamedTrees(most) ==
    UNION {{[root |-> 1, parent |-> up, name |-> nm] :
               up \in {f \in [1..n -> 0..n] :
                          /\ f[1] = NONE
                          /\ \A i \in 2..n : f[i] \in 1..(i - 1)},
               nm \in [1..n -> NodeNames]} : n \in 1..most}

ChildrenOf(t, node) ==
    SelectSeq([i \in DOMAIN t.parent |-> i], LAMBDA c : t.parent[c] = node)

\* A string is held as the pieces its "/" separate: "/a/b" is <<"", "a", "b">>.
\* _node_path: "/" + "/".join(names from the root down to the node).
RECURSIVE NamesUpTo(_, _)
NamesUpTo(t, current) ==
    IF current = NONE THEN <<>>
    ELSE Append(NamesUpTo(t, t.parent[current]),
                IF t.name[current] = "" THEN "<unnamed>" ELSE t.name[current])

_node_path(t, node) == <<"">> \o NamesUpTo(t, node)

\* _find_node_by_path.match and its loop over the children from index idx.
RECURSIVE match(_, _, _), MatchChildren(_, _, _, _)
match(t, node, segments) ==
    IF segments = <<>> THEN node
    ELSE IF t.name[node] # Head(segments) THEN NONE
    ELSE IF Len(segments) = 1 THEN node
    ELSE MatchChildren(t, ChildrenOf(t, node), Tail(segments), 1)

MatchChildren(t, children, segments, idx) ==
    IF idx > Len(children) THEN NONE
    ELSE LET result == match(t, children[idx], segments)
         IN IF result # NONE THEN result
            ELSE MatchChildren(t, children, segments, idx + 1)

_find_node_by_path(t, path) ==
    LET target == SelectSeq(path, LAMBDA segment : segment # "")
    IN IF target = <<>> THEN t.root
       ELSE MatchChildren(t, ChildrenOf(t, t.root), target, 1)

\* The hierarchy of the scenes a validator is given: the root, which the
\* SDK names RootNode, and under it the node Body that carries the mesh.
BodyTree ==
    [root |-> 1, parent |-> <<NONE, 1>>, name |-> <<"RootNode", "Body">>,
     mesh |-> 2]

\* path.split("/") of the object paths the validator writes.
Pieces(path) == IF path = MeshPath THEN _node_path(BodyTree, BodyTree.mesh)
                ELSE <<path>>

\* Lines 886-891: every cluster of the mesh at the issue's path gets its
\* transform matrix (for skin.cluster_matrix) and, when it has a link, its
\* link matrix.
RebuildMatrices(clusters, code) ==
    [c \in DOMAIN clusters |->
        [clusters[c] EXCEPT
            !.matrix = IF code = "skin.cluster_matrix" THEN TRUE ELSE clusters[c].matrix,
            !.link_matrix = IF clusters[c].link THEN TRUE ELSE clusters[c].link_matrix]]

\* Lines 871-897: the issues of category skin, in order, from the k-th.
RECURSIVE RepairSkin(_, _)
RepairSkin(r, k) ==
    IF k > Len(r.report.categories["skin"]) THEN r
    ELSE LET issue == r.report.categories["skin"][k]
             next ==
               IF issue.code \in {"skin.cluster_matrix", "skin.cluster_link_matrix"}
               THEN LET path == IF issue.object_path = "" THEN "<mesh>"
                                ELSE issue.object_path
                        node == _find_node_by_path(BodyTree, Pieces(path))
                    IN IF node = NONE THEN r
                       ELSE IF ~(node = BodyTree.mesh /\ r.scene.mesh.present) THEN r
                       ELSE Fixed([r EXCEPT !.scene.mesh.clusters =
                                      RebuildMatrices(r.scene.mesh.clusters, issue.code)],
                                  "skin", k,
                                  "Skin cluster matrices rebuilt from current pose.")
               ELSE IF issue.code \in {"skin.bind_pose_missing", "skin.bind_pose_empty"}
               THEN [r EXCEPT !.needs_bind_pose = TRUE]
               ELSE r
         IN RepairSkin(next, k + 1)

\* A repair that makes no pose.
NoBindPose(r, st) == r

\* A repair that makes a pose for the missing bind pose and one more.
TwoBindPoses(r, st) ==
    [r EXCEPT
       !.scene.poses = r.scene.poses \o
           <<[bind |-> TRUE, count |-> Len(Preorder(st.kids, st.root))],
             [bind |-> TRUE, count |-> Len(Preorder(st.kids, st.root))]>>,
       !.report.repairs = Append(r.report.repairs,
                                 [object |-> "<poses>",
                                  action |-> "Bind pose reconstructed."])]

\* Lines 899-912: one new bind pose with an entry for every node under the
\* root; every bind-pose issue is marked.
ReconstructBindPose(r, st) ==
    LET skin == r.report.categories["skin"]
    IN [r EXCEPT
          !.scene.poses = Append(r.scene.poses,
                                 [bind |-> TRUE, count |-> Len(Preorder(st.kids, st.root))]),
          !.report.repairs = Append(r.report.repairs,
                                    [object |-> "<poses>",
                                     action |-> "Bind pose reconstructed."]),
          !.report.categories["skin"] =
              [k \in DOMAIN skin |->
                  IF skin[k].code \in {"skin.bind_pose_missing", "skin.bind_pose_empty"}
                  THEN [skin[k] EXCEPT !.fix_applied = "Bind pose reconstructed."]
                  ELSE skin[k]]]

\* AutoRepair(report, scene, canonical): the scene and the report it leaves.
AutoRepair(rep, sc, canon, st) ==
    LET r0 == [scene |-> sc, report |-> rep, needs_bind_pose |-> FALSE]
        r1 == RepairSkin(RepairGlobals(r0, canon, 1), 1)
    IN IF r1.needs_bind_pose THEN ReconstructBindPose(r1, st) ELSE r1

\* A dict that was never filled.
NoReport ==
    [present |-> FALSE, categories |-> [c \in Range(Categories) |-> <<>>],
     repairs |-> <<>>, metrics |-> SceneMetrics]
NoRoundTrip == [present |-> FALSE, validation |-> NoReport, metrics_diff |-> <<>>]
NoError == [kind |-> "none", message |-> "", summary |-> {}, metrics_diff |-> <<>>]

\* ------------------------------------------------- reports and metrics
Severities == {"PASS", "WARN", "FAIL"}

\* The issue lists add_issue builds, of at most `most` issues.
IssueLists(most) ==
    UNION {[1..n -> [severity : Severities, code : {"geometry.polygons"},
                     object_path : {MeshPath}, fix_applied : {""}]] : n \in 0..most}

\* layer_elements of a MeshMetrics: each key absent or with a count.
LayerElements ==
    {<<>>, "normals:0" :> 0, "normals:0" :> 1, "uv0:0" :> 1,
     ("normals:0" :> 0) @@ ("uv0:0" :> 1), ("normals:0" :> 1) @@ ("uv0:0" :> 1)}

MeshMetricsOf(control_points, polygon_count, layer_elements) ==
    [control_points |-> control_points, polygon_count |-> polygon_count,
     layer_elements |-> layer_elements]

\* mesh_metrics of a SceneMetrics: the meshes of at most two paths.
MeshTables ==
    LET body == {MeshMetricsOf(cp, 1, le) : cp \in {1, 2}, le \in LayerElements}
                \cup {MeshMetricsOf(1, 2, <<>>)}
        head == {MeshMetricsOf(1, 1, <<>>)}
    IN {<<>>}
       \cup {"/RootNode/Body" :> b : b \in body}
       \cup {"/RootNode/Head" :> h : h \in head}
       \cup {("/RootNode/Body" :> b) @@ ("/RootNode/Head" :> h) : b \in body, h \in head}

\* The SceneMetrics compared: one scalar field off its default, or meshes.
MetricsFamily ==
    {[SceneMetrics EXCEPT ![ScalarMetrics[k]] = 1] : k \in DOMAIN ScalarMetrics}
    \cup {[SceneMetrics EXCEPT !.mesh_metrics = t] : t \in MeshTables}

\* The accessors of the SDK a category check reads the scene with, by what
\* they read; each can raise.
Accessors ==
    {"mesh layer", "cluster", "material", "animation stack", "constraint",
     "local transform"}

\* The category checks that call the accessor on the scene with content sc:
\* the layers and materials of a mesh are read for every mesh, the clusters
\* for every cluster of a skin, the animation stacks and the constraints are
\* counted on every scene, the local transforms are read on every node.
Callers(sc, accessor) ==
    CASE accessor = "mesh layer" -> IF sc.mesh.present THEN {"geometry"} ELSE {}
      [] accessor = "material" ->
            IF sc.mesh.present THEN {"materials", "connections"} ELSE {}
      [] accessor = "cluster" ->
            IF sc.mesh.present /\ sc.mesh.skinned /\ sc.mesh.clusters # <<>>
            THEN {"skin", "connections"} ELSE {}
      [] accessor = "animation stack" -> {"animation"}
      [] accessor = "constraint" -> {"constraints"}
      [] accessor = "local transform" -> {"nodes"}

\* SceneValidator.validate when the accessor `failing` raises: only
\* ValidateNodesAndTransforms reads inside a try block (lines 429-440) and
\* reports the FAIL nodes.transform_read for each node; an exception raised
\* in any other check leaves validate.
RECURSIVE TransformReads(_, _)
TransformReads(nodes, issues) ==
    IF nodes = <<>> THEN issues
    ELSE TransformReads(Tail(nodes),
            add_issue(issues, "FAIL", "nodes.transform_read", ToString(Head(nodes))))

ValidateOrRaise(canon, sc, st, failing) ==
    LET rep == validate(canon, sc, st)
    IN IF Callers(sc, failing) \ {"nodes"} # {}
       THEN [raised |-> TRUE, report |-> NoReport]
       ELSE IF "nodes" \in Callers(sc, failing)
       THEN [raised |-> FALSE,
             report |-> [rep EXCEPT !.categories["nodes"] =
                            TransformReads(Preorder(st.kids, st.root), @)]]
       ELSE [raised |-> FALSE, report |-> rep]

\* The attachments a node can have, the labels a model node can carry and
\* the skeleton_types the SDK builds can give.
Attachments == {"NoAttr", "Mesh"} \cup skeleton_labels
Labels == {"Node", "Mesh", ""} \cup skeleton_labels
Resolutions ==
    UNION {[found -> {"value", "None"}] : found \in SUBSET skeleton_labels}

NoProbe ==
    [kind |-> "none", step |-> 0, issues |-> <<>>, status |-> "",
     lhs |-> SceneMetrics, rhs |-> SceneMetrics, forward |-> <<>>, backward |-> <<>>,
     tree |-> [root |-> NONE, parent |-> <<>>, name |-> <<>>], node |-> NONE,
     path |-> <<>>, found |-> NONE,
     content |-> PlainScene, failing |-> "", raised |-> FALSE, report |-> NoReport,
     before |-> "", label |-> "", resolved |-> <<>>, after |-> ""]

\* ----------------------------------------------------------------- paths
\* A path is the sequence of its components below the filesystem root.
Paths ==
    {<<"d", "a.fbx">>, <<"d", ".", "x", "..", "a.fbx">>, <<"d", "A.fbx">>,
     <<"d", "b.fbx">>}

\* os.path.abspath of an absolute path: normpath drops "." and resolves "..";
\* it neither folds case nor follows links.
RECURSIVE normpath(_, _)
normpath(rest, done) ==
    IF rest = <<>> THEN done
    ELSE IF Head(rest) = "." THEN normpath(Tail(rest), done)
    ELSE IF Head(rest) = ".."
         THEN normpath(Tail(rest),
                       IF done = <<>> THEN done ELSE SubSeq(done, 1, Len(done) - 1))
    ELSE normpath(Tail(rest), Append(done, Head(rest)))

abspath(path) == normpath(path, <<>>)

\* Letter case folded, component by component.
lower(component) == IF component = "A.fbx" THEN "a.fbx" ELSE component

\* The two paths name one file wherever the filesystem folds letter case.
SameFile(p, q) ==
    LET a == abspath(p)
        b == abspath(q)
    IN [i \in DOMAIN a |-> lower(a[i])] = [i \in DOMAIN b |-> lower(b[i])]

\* No file at a path.
NoFile == [root |-> NONE, kids |-> <<>>, att |-> <<>>, tr |-> <<>>]

\* A copy that leaves the destination empty.
EmptyCopy(f) == NoFile

\* shutil.copy2 in _copy_scene_file: the content the destination gets.
_copy_scene_file(f) == f

\* Variants of the three decisions below: never repairing, exporting whatever
\* the post-repair report says, and ignoring the metrics diff.
NeverRepair(rep) == "Exporting"
ExportRegardless(rep) == "Exporting"
IgnoreMetricsDiff(rt) == ~export_ready(rt.validation)

\* The next phase after the pre-repair validation (line 145).
AfterValidatePre(rep) == IF export_ready(rep) THEN "Exporting" ELSE "AutoRepairing"

\* The next phase after the post-repair validation (line 151).
AfterValidatePost(rep) == IF export_ready(rep) THEN "Exporting" ELSE "Failed"

\* The test that ends the round trip (line 174).
RoundTripFails(rt) == ~export_ready(rt.validation) \/ rt.metrics_diff # <<>>

\* sdk.create_manager: a new manager, the last of the table, not destroyed.
create_manager(h, owner) == Append(h, [owner |-> owner, destroyed |-> 0])

\* sdk.destroy_manager: Destroy() on the manager m.
destroy_manager(h, m) == [h EXCEPT ![m].destroyed = @ + 1]

\* The manager the owner created last.
ManagerOf(h, owner) ==
    CHOOSE m \in DOMAIN h :
        /\ h[m].owner = owner
        /\ \A k \in DOMAIN h : h[k].owner = owner => k <= m

\* A finally clause that destroys nothing.
LeakManager(h) == h

\* The finally clause of save_scene_graph_as (lines 189-190).
Finally(h) == destroy_manager(h, ManagerOf(h, "save_scene_graph_as"))

\* round_trip_check, for the managers: one is created, and destroyed by the
\* finally clause whether the function returns or raises.
round_trip_check_managers(h) ==
    LET h1 == create_manager(h, "round_trip_check")
    IN destroy_manager(h1, Len(h1))

InitCall ==
    /\ pc = "Idle"
    /\ phases = <<>>
    /\ source_path = <<>>
    /\ target_path = <<>>
    /\ scene_graph_given = FALSE
    /\ force_rebuild = FALSE
    /\ scene = PlainScene
    /\ canonical = default
    /\ repaired = [done |-> FALSE, from |-> PlainScene, report |-> NoReport]
    /\ report = NoReport
    /\ baseline_metrics = SceneMetrics
    /\ info = [mode |-> "rebuild", validation_report_before |-> NoReport,
               validation_report_after |-> NoReport, auto_repairs |-> <<>>,
               roundtrip_report |-> NoRoundTrip]
    /\ dest = "absent"
    /\ managers = [created |-> 0, destroyed |-> 0]
    /\ handles = <<>>
    /\ dest_file = NoFile
    /\ aliased = FALSE
    /\ error = NoError
    /\ roundtrip = [called |-> FALSE, loaded |-> FALSE, report |-> NoRoundTrip]

\* FBXAnalyzer.__init__: no manager yet.
\* No operation yet.
NoOperation ==
    [op |-> "none", accepted |-> FALSE, node |-> NONE, to |-> NONE,
     before |-> [root |-> NONE, nodes |-> <<>>], names |-> <<>>,
     dirty |-> FALSE, path |-> "", debug |-> FALSE, mode |-> "", outcome |-> ""]

\* A DocumentPane just built: no target; the document is at its source path
\* and is not dirty.
NoEditor ==
    [target |-> NONE, dirty |-> FALSE, path |-> "a.fbx", names |-> <<>>,
     last |-> NoOperation]

InitLib ==
    /\ analyzer = [_manager |-> NONE, error |-> "none"]
    /\ probe = NoProbe
    /\ editor = NoEditor

\* A document just opened on a source file of at most `most` nodes.
InitDocument(most) ==
    \E n \in 1..most : \E p \in Shapes(n) :
        LET f == SourceFile(n, p)
            st == load_scene(f, FALSE, FirstUid)
        IN /\ file = f
           /\ fileOK = TRUE
           /\ store = st
           /\ model = collect(st)
           /\ diag = EmptyDiagnostics
           /\ nextUid = FirstUid + n
           /\ nextNode = n + 1
           /\ edits = 0
           /\ fieldEdits = 0
           /\ saves = 0
           /\ rphase = "editing"
           /\ pre = PreOf(st, collect(st))
           /\ prevLens = Lens(EmptyDiagnostics)

InitRecon == InitDocument(MaxStoreNodes) /\ InitCall /\ InitLib

Edited(mdl) ==
    /\ model' = mdl
    /\ edits' = edits + 1
    /\ rphase' = "editing"
    /\ UNCHANGED <<store, file, fileOK, diag, nextUid, saves, pre, prevLens>>
    /\ UNCHANGED <<varsCall, handles, varsLib, varsDisk, varsValidator>>

AddChildWithin(limit) ==
    /\ edits < limit /\ model.root # NONE
    /\ \E parent \in DOMAIN model.nodes :
          Edited(_add_child_node(model, parent, nextNode, default_new_type))
    /\ nextNode' = nextNode + 1
    /\ UNCHANGED fieldEdits

AddChildNode == AddChildWithin(MaxEdits)

ReparentToTarget ==
    /\ edits < MaxEdits /\ model.root # NONE
    /\ \E node, target \in DOMAIN model.nodes :
          /\ CanReparent(model, node, target)
          /\ Edited(_reparent_to_target(model, node, target))
    /\ UNCHANGED <<nextNode, fieldEdits>>

PromoteSelected ==
    /\ edits < MaxEdits /\ model.root # NONE
    /\ \E node \in DOMAIN model.nodes :
          /\ CanPromote(model, node)
          /\ Edited(_promote_selected(model, node))
    /\ UNCHANGED <<nextNode, fieldEdits>>

RemoveNodeWithin(limit) ==
    /\ edits < limit /\ model.root # NONE
    /\ \E node \in DOMAIN model.nodes :
          Edited(_remove_node_promote_children(model, node))
    /\ UNCHANGED <<nextNode, fieldEdits>>

RemoveNodePromoteChildren == RemoveNodeWithin(MaxEdits)

ApplyAttributeChange ==
    /\ edits < MaxEdits /\ fieldEdits < MaxFieldEdits /\ model.root # NONE
    /\ \E node \in DOMAIN model.nodes : \E label \in AttributeChoices :
          Edited(_apply_attribute_change(model, node, label))
    /\ fieldEdits' = fieldEdits + 1
    /\ UNCHANGED nextNode

ApplyTransformEdit ==
    /\ edits < MaxEdits /\ fieldEdits < MaxFieldEdits /\ model.root # NONE
    /\ \E node \in DOMAIN model.nodes : \E v \in {1} :
          Edited(_apply_transform_edit(model, node, v))
    /\ fieldEdits' = fieldEdits + 1
    /\ UNCHANGED nextNode

\* The reconciliation and the export that follows it.  What the exporter
\* writes of a scene whose hierarchy is no longer a tree is the SDK's to
\* say: the file is then left as it was and the session saves no more.
Reconciled(st0, d0, next0) ==
    LET s == _apply_scene_graph_changes(st0, model, d0, next0)
    IN /\ store' = s.st
       /\ model' = [model EXCEPT !.nodes = s.mu]
       /\ diag' = DiagOf(s)
       /\ nextUid' = s.next
       /\ fileOK' = IsTree(s.st)
       /\ file' = IF IsTree(s.st) THEN save_scene(s.st) ELSE file
       /\ pre' = PreOf(st0, model)
       /\ prevLens' = Lens(d0)
       /\ UNCHANGED <<varsCall, handles, varsLib, varsDisk, varsValidator>>

\* Save As on the rebuild path: the file is loaded into a new scene, the
\* model is reconciled onto it and the scene is exported.
Reconcile ==
    /\ saves < MaxSaves /\ model.root # NONE /\ fileOK
    /\ \E fresh \in BOOLEAN :
          Reconciled(load_scene(file, fresh, nextUid), EmptyDiagnostics,
                     IF fresh THEN nextUid + Cardinality(DOMAIN file.kids)
                     ELSE nextUid)
    /\ saves' = saves + 1
    /\ rphase' = "reconciled"
    /\ UNCHANGED <<nextNode, edits, fieldEdits>>

\* _apply_scene_graph_changes run a second time, with the same model, the
\* same scene and the same diagnostics.
ReconcileAgain ==
    /\ rphase = "reconciled" /\ IsTree(store)
    /\ Reconciled(store, diag, nextUid)
    /\ rphase' = "again"
    /\ UNCHANGED <<nextNode, edits, fieldEdits, saves>>

NextRecon ==
    \/ AddChildNode
    \/ ReparentToTarget
    \/ PromoteSelected
    \/ RemoveNodePromoteChildren
    \/ ApplyAttributeChange
    \/ ApplyTransformEdit
    \/ Reconcile
    \/ ReconcileAgain

SpecRecon == InitRecon /\ [][NextRecon]_vars

\* Sessions on larger scenes in which the only edits are node removals.
InitPrune == InitDocument(MaxPruneNodes) /\ InitCall /\ InitLib

RemoveNode == RemoveNodeWithin(MaxRemovals)

NextPrune ==
    \/ RemoveNode
    \/ Reconcile

SpecPrune == InitPrune /\ [][NextPrune]_vars

\* Sessions on a scene that is a lone root, in which nodes are added and
\* removed: the root of the model can become a node the editor added.
InitGrow == InitDocument(1) /\ InitCall /\ InitLib

GrowChild == AddChildWithin(MaxGrowth)

ReplaceNode == RemoveNodeWithin(MaxGrowth)

NextGrow ==
    \/ GrowChild
    \/ ReplaceNode
    \/ Reconcile

SpecGrow == InitGrow /\ [][NextGrow]_vars

\* ------------------------------------------------------ DocumentPane
\* The handlers of the editor, each with its early returns, its edit, the
\* dirty flag and the tree refresh that ends it.  A name is the sequence of
\* the pieces its "_" separate: "NewNode_2" is <<"NewNode", 2>>.
\* The node the handler finds selected: none when the tree is empty.
Selectable(mdl) == IF mdl.root = NONE THEN {NONE} ELSE DOMAIN mdl.nodes

_node_exists(mdl, node) ==
    /\ mdl.root # NONE
    /\ node \in DOMAIN mdl.nodes
    /\ node \in Descendants(mdl, mdl.root)

\* A pane that never drops its target.
KeepTarget(before, after, removed, target) == target

\* The marked target after a handler: _remove_node_promote_children resets
\* it when it removed the root or the target itself (lines 954, 964-965);
\* _on_node_select, run by every refresh of a tree that is not empty, drops
\* a target that is no longer in the tree (lines 743-745).
TargetAfter(before, after, removed, target) ==
    LET kept == IF /\ removed # NONE
                   /\ (_find_parent(before, removed) = NONE \/ target = removed)
                THEN NONE ELSE target
    IN IF after.root # NONE /\ kept # NONE /\ ~_node_exists(after, kept)
       THEN NONE ELSE kept

\* A name box that never renames.
TypedName(name, existing_names) == name

\* _add_child_node, lines 855-860: suffix = 1; while the name is taken:
\* suffix += 1 and the name is name_suffix.
RECURSIVE NextFreeName(_, _, _)
NextFreeName(name, existing_names, suffix) ==
    IF Append(name, suffix) \in existing_names
    THEN NextFreeName(name, existing_names, suffix + 1)
    ELSE Append(name, suffix)

unique_name(name, existing_names) ==
    IF name \in existing_names THEN NextFreeName(name, existing_names, 2) ELSE name

\* The names of the nodes of a document just opened.
LoadedNames(mdl) ==
    Table([m \in DOMAIN mdl.nodes |->
              IF m = mdl.root THEN <<"RootNode">>
              ELSE IF m = 2 THEN <<"NewNode">> ELSE <<"NewNode", 2>>])

InitEditor ==
    /\ InitDocument(MaxEditorNodes) /\ InitCall
    /\ analyzer = [_manager |-> NONE, error |-> "none"]
    /\ probe = NoProbe
    /\ editor = [NoEditor EXCEPT !.names = LoadedNames(model)]

\* What a handler leaves: the model, the target, the names, the dirty flag
\* (set by _mark_scene_graph_dirty when the handler edited) and the record
\* of the operation.
Handled(op, node, to, accepted, edited, mdl, target, names) ==
    /\ edits < MaxEditorSteps
    /\ model' = mdl
    /\ editor' = [editor EXCEPT
                     !.target = target,
                     !.names = names,
                     !.dirty = @ \/ edited,
                     !.last = [NoOperation EXCEPT
                                 !.op = op, !.accepted = accepted, !.node = node,
                                 !.to = to, !.before = model,
                                 !.names = editor.names, !.dirty = editor.dirty,
                                 !.path = editor.path]]
    /\ edits' = edits + 1
    /\ UNCHANGED <<store, file, fileOK, diag, nextUid, saves, pre, prevLens,
                   fieldEdits, rphase>>
    /\ UNCHANGED <<varsCall, handles, analyzer, probe, varsDisk, varsValidator>>

Rejected(op, node) ==
    Handled(op, node, NONE, FALSE, FALSE, model, editor.target, editor.names)

\* An accepted edit: the tree is refreshed.
Accepted(op, node, to, removed, mdl, names) ==
    Handled(op, node, to, TRUE, TRUE, mdl,
            TargetAfter(model, mdl, removed, editor.target), names)

RenameSelectedNode ==
    \E node \in Selectable(model), new_name \in {<<>>, <<"NewNode">>} :
        /\ UNCHANGED nextNode
        /\ IF node = NONE \/ new_name = <<>>
           THEN Rejected("rename", node)
           ELSE Accepted("rename", node, NONE, NONE, _rebuild_parent_links(model),
                         [editor.names EXCEPT ![node] = new_name])

EditAttribute ==
    \E node \in Selectable(model), new_type \in {"", "LimbNode"} :
        /\ UNCHANGED nextNode
        /\ IF node = NONE \/ new_type = ""
           THEN Rejected("attribute", node)
           ELSE Accepted("attribute", node, NONE, NONE,
                         _apply_attribute_change(model, node, new_type), editor.names)

\* _parse_vector_input gives None for what is not three numbers.
EditTransform ==
    \E node \in Selectable(model), parsed \in BOOLEAN :
        /\ UNCHANGED nextNode
        /\ IF node = NONE \/ ~parsed
           THEN Rejected("transform", node)
           ELSE Accepted("transform", node, NONE, NONE,
                         _apply_transform_edit(model, node, 1), editor.names)

AddChild_ ==
    \E parent \in Selectable(model), typed \in {<<>>, <<"NewNode", 2>>} :
        IF parent = NONE
        THEN Rejected("add", parent) /\ UNCHANGED nextNode
        ELSE LET name == IF typed = <<>> THEN <<"NewNode">> ELSE typed
                 existing_names == {editor.names[c] :
                                       c \in Range(model.nodes[parent].children)}
             IN /\ nextNode' = nextNode + 1
                /\ Accepted("add", nextNode, parent, NONE,
                            _add_child_node(model, parent, nextNode, default_new_type),
                            editor.names @@
                               (nextNode :> unique_name(name, existing_names)))

MarkReparentTarget ==
    \E node \in Selectable(model) :
        /\ UNCHANGED nextNode
        /\ IF node = NONE THEN Rejected("mark", node)
           ELSE Handled("mark", node, NONE, TRUE, FALSE, model, node, editor.names)

ReparentSelected ==
    \E node \in Selectable(model) :
        /\ UNCHANGED nextNode
        /\ IF \/ node = NONE
              \/ editor.target = NONE
              \/ ~CanReparent(model, node, editor.target)
           THEN Rejected("reparent", node)
           ELSE Accepted("reparent", node, editor.target, NONE,
                         _reparent_to_target(model, node, editor.target),
                         editor.names)

PromoteNode ==
    \E node \in Selectable(model) :
        /\ UNCHANGED nextNode
        /\ IF node = NONE \/ ~CanPromote(model, node)
           THEN Rejected("promote", node)
           ELSE Accepted("promote", node,
                         _find_parent(model, _find_parent(model, node)), NONE,
                         _promote_selected(model, node), editor.names)

RemoveSelected ==
    \E node \in Selectable(model) :
        /\ UNCHANGED nextNode
        /\ IF node = NONE THEN Rejected("remove", node)
           ELSE LET after == _remove_node_promote_children(model, node)
                IN Accepted("remove", node, _find_parent(model, node), node, after,
                            Restrict(editor.names, DOMAIN after.nodes))

\* The fast path of save_scene_graph_as (save_as.py:118-121).
SaveMode(graph_given, rebuild) ==
    IF ~graph_given /\ ~rebuild THEN "copy" ELSE "rebuild"

\* _on_save_as_clicked, lines 1217-1227: whether the call is given a scene
\* graph that is not None.
GraphGiven(mdl, dirty, debug) == mdl.root # NONE /\ (debug \/ dirty)

\* FBXAnalyzerApp._on_save_as_clicked.  The call fails when the paths are
\* the same, and may fail before the scene is loaded or after the
\* reconciliation, which has then rewritten the uids of the model.
SaveAsClicked ==
    \E debug \in BOOLEAN, save_path \in {"a.fbx", "b.fbx"}, fresh \in BOOLEAN,
       outcome \in {"saved", "load failed", "save failed"} :
        LET given == GraphGiven(model, editor.dirty, debug)
            mode == SaveMode(given, debug)
            s == _apply_scene_graph_changes(load_scene(file, fresh, nextUid), model,
                     EmptyDiagnostics,
                     IF fresh THEN nextUid + Cardinality(DOMAIN file.kids)
                     ELSE nextUid)
            reconciles == given /\ outcome # "load failed"
            saved == outcome = "saved"
        IN /\ edits < MaxEditorSteps /\ fileOK
           /\ save_path = editor.path => outcome = "load failed"
           /\ outcome = "save failed" => mode = "rebuild"
           /\ reconciles /\ saved => IsTree(s.st)
           /\ edits' = edits + 1
           /\ model' = IF reconciles THEN [model EXCEPT !.nodes = s.mu] ELSE model
           /\ store' = IF reconciles THEN s.st ELSE store
           /\ diag' = IF reconciles THEN DiagOf(s) ELSE diag
           /\ nextUid' = IF reconciles THEN s.next ELSE nextUid
           /\ file' = IF reconciles /\ saved THEN save_scene(s.st) ELSE file
           /\ saves' = IF saved THEN saves + 1 ELSE saves
           /\ editor' = [editor EXCEPT
                 !.dirty = IF saved THEN FALSE ELSE @,
                 !.path = IF saved THEN save_path ELSE @,
                 !.last = [NoOperation EXCEPT
                             !.op = "save", !.accepted = saved, !.before = model,
                             !.names = editor.names, !.dirty = editor.dirty,
                             !.path = editor.path, !.debug = debug,
                             !.mode = mode, !.outcome = outcome]]
           /\ UNCHANGED <<fileOK, pre, prevLens, fieldEdits, rphase, nextNode>>
           /\ UNCHANGED <<varsCall, handles, analyzer, probe, varsDisk, varsValidator>>

NextEditor ==
    \/ RenameSelectedNode
    \/ EditAttribute
    \/ EditTransform
    \/ AddChild_
    \/ MarkReparentTarget
    \/ ReparentSelected
    \/ PromoteNode
    \/ RemoveSelected
    \/ SaveAsClicked

SpecEditor == InitEditor /\ [][NextEditor]_vars

\* ------------------------------------------------- save_scene_graph_as
\* One call, phase by phase.  The document (model, file) is the one opened;
\* the session variables of the editor stay as they are.
varsSession == <<fileOK, file, nextNode, edits, fieldEdits, saves>>
varsScene == <<model, store, diag, nextUid, rphase, pre, prevLens>>
varsArgs == <<source_path, target_path, scene_graph_given, force_rebuild>>

\* raise kind(message), through the finally clause when a manager is held.
Raise(kind, message, summary, metrics_diff, held, h) ==
    /\ pc' = "Failed"
    /\ error' = [kind |-> kind, message |-> message, summary |-> summary,
                 metrics_diff |-> metrics_diff]
    /\ managers' = [managers EXCEPT !.destroyed = @ + held]
    /\ handles' = IF held = 1 THEN Finally(h) ELSE h

\* Lines 109-123: the path check, the copy path, the manager.  Whether the
\* filesystem folds letter case is the platform's; shutil.copy2 refuses to
\* copy a file onto itself (SameFileError, an OSError).
Begin ==
    /\ pc = "Idle"
    /\ \E src, dst \in Paths : \E given, force, copied, folds \in BOOLEAN :
          /\ source_path' = src
          /\ target_path' = dst
          /\ scene_graph_given' = given
          /\ force_rebuild' = force
          /\ aliased' = (abspath(src) = abspath(dst) \/ (folds /\ SameFile(src, dst)))
          /\ IF abspath(src) = abspath(dst)
             THEN /\ Raise("FBXSaveError", "distinct_paths", {}, <<>>, 0, handles)
                  /\ UNCHANGED <<info, dest, dest_file>>
             ELSE IF ~given /\ ~force
             THEN /\ info' = [info EXCEPT !.mode = "copy"]
                  /\ IF copied /\ ~(folds /\ SameFile(src, dst))
                     THEN /\ pc' = "Done"
                          /\ dest' = "copied"
                          /\ dest_file' = _copy_scene_file(file)
                          /\ UNCHANGED <<error, managers, handles>>
                     ELSE /\ Raise("FBXSaveError", "copy_failed", {}, <<>>, 0, handles)
                          /\ UNCHANGED <<dest, dest_file>>
             ELSE /\ pc' = "Loading"
                  /\ managers' = [managers EXCEPT !.created = @ + 1]
                  /\ handles' = create_manager(handles, "save_scene_graph_as")
                  /\ UNCHANGED <<info, dest, dest_file, error>>
    /\ UNCHANGED <<phases, scene, report, baseline_metrics, roundtrip>>
    /\ UNCHANGED <<varsSession, varsLib, varsScene, varsValidator>>

\* Lines 125-133 and 138: the source is loaded into a new scene, whose
\* content is the file's, and a validator with the default canonical
\* settings is made for it.
Load ==
    /\ pc = "Loading"
    /\ \E ok, fresh \in BOOLEAN : \E d \in LoadedScenes :
          IF ok
          THEN /\ store' = load_scene(file, fresh, nextUid)
               /\ nextUid' = IF fresh THEN nextUid + Cardinality(DOMAIN file.kids)
                             ELSE nextUid
               /\ scene' = d
               /\ canonical' = default
               /\ info' = [info EXCEPT !.mode = "rebuild"]
               /\ pc' = IF scene_graph_given THEN "Reconciling" ELSE "ValidatingPre"
               /\ UNCHANGED <<error, managers, handles>>
          ELSE /\ Raise("FBXLoadError", "load_failed", {}, <<>>, 1, handles)
               /\ UNCHANGED <<store, nextUid, scene, canonical, info>>
    /\ UNCHANGED <<phases, report, baseline_metrics, dest, roundtrip, varsArgs>>
    /\ UNCHANGED <<varsSession, varsLib, varsDisk, model, diag, rphase, pre, prevLens>>
    /\ UNCHANGED repaired

\* Lines 135-136: the scene graph is reconciled onto the scene.
Reconciling ==
    /\ pc = "Reconciling"
    /\ LET s == _apply_scene_graph_changes(store, model, EmptyDiagnostics, nextUid)
       IN /\ store' = s.st
          /\ model' = [model EXCEPT !.nodes = s.mu]
          /\ diag' = DiagOf(s)
          /\ nextUid' = s.next
          /\ pre' = PreOf(store, model)
          /\ prevLens' = Lens(EmptyDiagnostics)
    /\ rphase' = "reconciled"
    /\ phases' = Append(phases, "Reconciling")
    /\ pc' = "ValidatingPre"
    /\ UNCHANGED <<scene, report, baseline_metrics, info, dest, managers, handles, error,
                   roundtrip, varsArgs, varsSession, varsLib, varsDisk, varsValidator>>

\* Lines 138-145 and 158-160: the validation before any repair.
ValidatingPre ==
    /\ pc = "ValidatingPre"
    /\ LET validation_report == validate(canonical, scene, store)
       IN /\ report' = validation_report
          /\ baseline_metrics' = validation_report.metrics
          /\ pc' = AfterValidatePre(validation_report)
          /\ info' = IF export_ready(validation_report)
                     THEN [info EXCEPT !.validation_report_before = validation_report,
                                       !.validation_report_after = validation_report,
                                       !.auto_repairs = <<>>]
                     ELSE [info EXCEPT !.validation_report_before = validation_report]
    /\ canonical' = validate_canonical(canonical, scene)
    /\ phases' = Append(phases, "ValidatingPre")
    /\ UNCHANGED <<scene, dest, managers, handles, error, roundtrip, varsArgs,
                   varsSession, varsLib, varsDisk, varsScene, repaired>>

\* Lines 146-147: the repairs; `repaired` keeps the scene the repair began
\* with and the report it marked.  to_dict() (validation.py:63-68, 160-163)
\* stored each issue's own __dict__ in validation_report_before, so what the
\* repair writes into an issue shows there; its repairs list is a copy.
AutoRepairing ==
    /\ pc = "AutoRepairing"
    /\ LET r == AutoRepair(report, scene, canonical, store)
       IN /\ scene' = r.scene
          /\ report' = r.report
          /\ info' = [info EXCEPT !.auto_repairs = r.report.repairs,
                                  !.validation_report_before.categories =
                                      r.report.categories]
          /\ repaired' = [done |-> TRUE, from |-> scene, report |-> r.report]
    /\ phases' = Append(phases, "AutoRepairing")
    /\ pc' = "ValidatingPost"
    /\ UNCHANGED <<baseline_metrics, dest, managers, handles, error, roundtrip,
                   varsArgs, varsSession, varsLib, varsDisk, varsScene, canonical>>

\* Lines 148-157: the validation after the repairs.
ValidatingPost ==
    /\ pc = "ValidatingPost"
    /\ LET post_repair_report == validate(canonical, scene, store)
       IN /\ report' = post_repair_report
          /\ info' = [info EXCEPT !.validation_report_after = post_repair_report]
          /\ baseline_metrics' = post_repair_report.metrics
          /\ IF AfterValidatePost(post_repair_report) = "Failed"
             THEN Raise("FBXSaveError", "validation_failed",
                        status_summary(post_repair_report), <<>>, 1, handles)
             ELSE /\ pc' = AfterValidatePost(post_repair_report)
                  /\ UNCHANGED <<error, managers, handles>>
    /\ canonical' = validate_canonical(canonical, scene)
    /\ phases' = Append(phases, "ValidatingPost")
    /\ UNCHANGED <<scene, dest, roundtrip, varsArgs, varsSession, varsLib, varsDisk,
                   varsScene, repaired>>

\* What the exporter leaves at a path that held `old`: the file of the
\* scene when its hierarchy is a tree.
Written(st, old) == IF IsTree(st) THEN save_scene(st) ELSE old

\* Lines 162-163: sdk.save_scene writes the file the destination path names,
\* or fails.
Exporting ==
    /\ pc = "Exporting"
    /\ \E ok \in BOOLEAN :
          IF ok
          THEN /\ dest' = "exported"
               /\ dest_file' = Written(store, dest_file)
               /\ file' = IF aliased THEN Written(store, file) ELSE file
               /\ pc' = "RoundTripChecking"
               /\ UNCHANGED <<error, managers, handles>>
          ELSE /\ dest' = "export_failed"
               /\ Raise("FBXSaveError", "export_failed", {}, <<>>, 1, handles)
               /\ UNCHANGED <<dest_file, file>>
    /\ phases' = Append(phases, "Exporting")
    /\ UNCHANGED <<scene, report, baseline_metrics, info, roundtrip, varsArgs,
                   fileOK, nextNode, edits, fieldEdits, saves, aliased,
                   varsLib, varsScene, varsValidator>>

\* Lines 165-192 and round_trip_check: the destination is loaded with a
\* manager of its own and validated; what the exporter and the importer made
\* of the scene is theirs to choose (content d, `more` nodes added).
RoundTripChecking ==
    /\ pc = "RoundTripChecking"
    /\ \E loaded \in BOOLEAN : \E d \in ReloadedScenes(scene) : \E more \in 0..1 :
       \E counted \in {"node_count", "material_count"} :
          LET validation_report ==
                  [validate(canonical, d, store) EXCEPT
                      !.metrics[counted] = @ + more]
              metrics_diff == diff(validation_report.metrics, baseline_metrics)
              rt == [present |-> TRUE, validation |-> validation_report,
                     metrics_diff |-> metrics_diff]
          IN IF ~loaded
             THEN /\ roundtrip' = [called |-> TRUE, loaded |-> FALSE,
                                   report |-> NoRoundTrip]
                  /\ Raise("FBXSaveError", "reload_failed", {}, <<>>, 1,
                          round_trip_check_managers(handles))
                  /\ UNCHANGED <<info, canonical>>
             ELSE /\ roundtrip' = [called |-> TRUE, loaded |-> TRUE, report |-> rt]
                  /\ canonical' = validate_canonical(canonical, d)
                  /\ info' = [info EXCEPT !.roundtrip_report = rt]
                  /\ IF RoundTripFails(rt)
                     THEN Raise("FBXSaveError", "roundtrip_failed",
                                status_summary(validation_report), metrics_diff, 1,
                                round_trip_check_managers(handles))
                     ELSE /\ pc' = "Done"
                          /\ managers' = [managers EXCEPT !.destroyed = @ + 1]
                          /\ handles' = Finally(round_trip_check_managers(handles))
                          /\ UNCHANGED error
    /\ phases' = Append(phases, "RoundTripChecking")
    /\ UNCHANGED <<scene, report, baseline_metrics, dest, varsArgs,
                   varsSession, varsLib, varsDisk, varsScene, repaired>>

Init == InitDocument(MaxStoreNodes) /\ InitCall /\ InitLib

Next ==
    \/ Begin
    \/ Load
    \/ Reconciling
    \/ ValidatingPre
    \/ AutoRepairing
    \/ ValidatingPost
    \/ Exporting
    \/ RoundTripChecking

Spec == Init /\ [][Next]_vars

\* ------------------------------------------------------ SceneValidator
\* A SceneValidator at work on the scene a call has loaded, as lines 138-157
\* run it: validate, auto_repair, validate.  The scene and the canonical
\* settings the validator is built with are its inputs.
InitValidator ==
    /\ InitDocument(MaxValidatedNodes) /\ InitLib
    /\ pc = "ValidatingPre"
    /\ phases = <<>>
    /\ source_path = <<"d", "a.fbx">>
    /\ target_path = <<"d", "b.fbx">>
    /\ scene_graph_given = FALSE
    /\ force_rebuild = TRUE
    /\ scene \in Scenes(MaxPoses, MaxClusters)
    /\ canonical \in Canonicals
    /\ repaired = [done |-> FALSE, from |-> PlainScene, report |-> NoReport]
    /\ report = NoReport
    /\ baseline_metrics = SceneMetrics
    /\ info = [mode |-> "rebuild", validation_report_before |-> NoReport,
               validation_report_after |-> NoReport, auto_repairs |-> <<>>,
               roundtrip_report |-> NoRoundTrip]
    /\ dest = "absent"
    /\ dest_file = NoFile
    /\ aliased = FALSE
    /\ managers = [created |-> 1, destroyed |-> 0]
    /\ handles = create_manager(<<>>, "save_scene_graph_as")
    /\ error = NoError
    /\ roundtrip = [called |-> FALSE, loaded |-> FALSE, report |-> NoRoundTrip]

NextValidator ==
    \/ ValidatingPre
    \/ AutoRepairing
    \/ ValidatingPost

SpecValidator == InitValidator /\ [][NextValidator]_vars

\* save_scene_graph_as from line 138 on: the validator is built with
\* CanonicalSettings.default() and works on the scene the call has loaded;
\* the scene is then exported and checked by the round trip.
InitTimeSpan == InitValidator /\ canonical = default

NextTimeSpan ==
    \/ NextValidator
    \/ Exporting
    \/ RoundTripChecking

SpecTimeSpan == InitTimeSpan /\ [][NextTimeSpan]_vars

\* ------------------------------------------------- status and diff
\* A category report whose status is read, or two SceneMetrics compared
\* each with the other.
InitReport ==
    /\ InitDocument(1) /\ InitCall
    /\ analyzer = [_manager |-> NONE, error |-> "none"]
    /\ editor = NoEditor
    /\ \/ \E issues \in IssueLists(MaxIssues) :
             probe = [NoProbe EXCEPT !.kind = "issues", !.issues = issues]
       \/ \E lhs \in MetricsFamily, rhs \in MetricsFamily :
             probe = [NoProbe EXCEPT !.kind = "metrics", !.lhs = lhs, !.rhs = rhs]
       \/ \E t \in NamedTrees(MaxNamedNodes) : \E node \in DOMAIN t.parent :
             probe = [NoProbe EXCEPT !.kind = "path", !.tree = t, !.node = node]
       \/ \E sc \in Scenes(1, MaxClusters), accessor \in Accessors :
             /\ sc.unit = "cm" /\ sc.time_mode = "eFrames30" /\ sc.custom_rate = 30
             /\ probe = [NoProbe EXCEPT !.kind = "reads", !.content = sc,
                                         !.failing = accessor]
       \/ \E before \in Attachments, label \in Labels, resolved \in Resolutions :
             probe = [NoProbe EXCEPT !.kind = "attribute", !.before = before,
                                     !.label = label, !.resolved = resolved]

ReadStatus ==
    /\ probe.kind = "issues" /\ probe.step = 0
    /\ probe' = [probe EXCEPT !.status = CategoryStatus(probe.issues), !.step = 1]
    /\ UNCHANGED <<varsRecon, varsCall, handles, analyzer, editor, varsDisk, varsValidator>>

CompareMetrics ==
    /\ probe.kind = "metrics" /\ probe.step = 0
    /\ probe' = [probe EXCEPT !.forward = diff(probe.lhs, probe.rhs),
                              !.backward = diff(probe.rhs, probe.lhs),
                              !.step = 1]
    /\ UNCHANGED <<varsRecon, varsCall, handles, analyzer, editor, varsDisk, varsValidator>>

\* The path the validator writes for a node, and the node AutoRepair finds
\* at that path.
FindByPath ==
    /\ probe.kind = "path" /\ probe.step = 0
    /\ probe' = [probe EXCEPT
                    !.path = _node_path(probe.tree, probe.node),
                    !.found = _find_node_by_path(probe.tree,
                                                 _node_path(probe.tree, probe.node)),
                    !.step = 1]
    /\ UNCHANGED <<varsRecon, varsCall, handles, analyzer, editor, varsDisk, varsValidator>>

\* validate() on a scene one of whose accessors raises.
ValidateWithReadFailure ==
    /\ probe.kind = "reads" /\ probe.step = 0
    /\ LET outcome == ValidateOrRaise(default, probe.content, store, probe.failing)
       IN probe' = [probe EXCEPT !.raised = outcome.raised,
                                 !.report = outcome.report, !.step = 1]
    /\ UNCHANGED <<varsRecon, varsCall, handles, analyzer, editor, varsDisk, varsValidator>>

\* _apply_node_attribute on a node with the attachment probe.before.
ApplyNodeAttribute ==
    /\ probe.kind = "attribute" /\ probe.step = 0
    /\ probe' = [probe EXCEPT
                    !.after = AttributeAfter(probe.before, probe.label, probe.resolved),
                    !.step = 1]
    /\ UNCHANGED <<varsRecon, varsCall, handles, analyzer, editor, varsDisk, varsValidator>>

NextReport ==
    \/ ApplyNodeAttribute
    \/ ReadStatus
    \/ CompareMetrics
    \/ FindByPath
    \/ ValidateWithReadFailure

SpecReport == InitReport /\ [][NextReport]_vars

\* --------------------------------------------------------- FBXAnalyzer
\* The managers FBXAnalyzer has created.
Loads == {m \in DOMAIN handles : handles[m].owner = "FBXAnalyzer"}

\* FBXAnalyzer.load, and __enter__ (lines 57-70, 83-84).
FBXAnalyzer_load ==
    /\ \E ok \in BOOLEAN :
          IF analyzer._manager # NONE
          THEN UNCHANGED <<analyzer, handles>>
          ELSE /\ Cardinality(Loads) < MaxLoads
               /\ LET manager == create_manager(handles, "FBXAnalyzer")
                  IN IF ok
                     THEN /\ analyzer' = [_manager |-> Len(manager), error |-> "none"]
                          /\ handles' = manager
                     ELSE /\ analyzer' = [analyzer EXCEPT !.error = "FBXLoadError"]
                          /\ handles' = destroy_manager(manager, Len(manager))
    /\ UNCHANGED <<varsRecon, varsCall, varsDisk, varsValidator, probe, editor>>

\* FBXAnalyzer.close, and __exit__ (lines 72-80).
FBXAnalyzer_close ==
    /\ IF analyzer._manager # NONE
       THEN /\ handles' = destroy_manager(handles, analyzer._manager)
            /\ analyzer' = [analyzer EXCEPT !._manager = NONE]
       ELSE UNCHANGED <<analyzer, handles>>
    /\ UNCHANGED <<varsRecon, varsCall, varsDisk, varsValidator, probe, editor>>

\* One call of save_scene_graph_as on a one-node document, beside the
\* loads and closes of the document's analyzer.
InitManagers == InitDocument(1) /\ InitCall /\ InitLib

NextManagers ==
    \/ Begin
    \/ Load
    \/ Reconciling
    \/ ValidatingPre
    \/ AutoRepairing
    \/ ValidatingPost
    \/ Exporting
    \/ RoundTripChecking
    \/ FBXAnalyzer_load
    \/ FBXAnalyzer_close

SpecManagers == InitManagers /\ [][NextManagers]_vars

\* ------------------------------------------------- orchestrator claims
IsPrefix(a, b) == Len(a) <= Len(b) /\ SubSeq(b, 1, Len(a)) = a

\* A report without a FAIL issue.
NoFail(rep) ==
    \A c \in DOMAIN rep.categories :
        \A k \in DOMAIN rep.categories[c] : rep.categories[c][k].severity # "FAIL"

\* The call took the rebuild path.
Rebuilding == managers.created > 0

Repaired == InSeq(phases, "AutoRepairing")

\* The phases of a whole rebuild, with or without the first one.
PhaseChain(reconciles) ==
    (IF reconciles THEN <<"Reconciling">> ELSE <<>>) \o <<"ValidatingPre">> \o
    (IF Repaired THEN <<"AutoRepairing", "ValidatingPost">> ELSE <<>>) \o
    <<"Exporting", "RoundTripChecking">>

PhasesFollow(chain) ==
    /\ IsPrefix(phases, chain)
    /\ (Rebuilding /\ pc = "Done") => phases = chain
    /\ info.validation_report_before.present =>
          ((Repaired \/ pc = "AutoRepairing") <=>
              ~NoFail(info.validation_report_before))

\* C1 as stated: on the rebuild path the phases run in the order Reconciling,
\* ValidatingPre, optionally AutoRepairing and ValidatingPost, Exporting,
\* RoundTripChecking, each at most once and none skipped but the repair pair,
\* and AutoRepairing runs exactly when the pre-repair report is not
\* export_ready.
C1_PhasesFromReconciling == PhasesFollow(PhaseChain(TRUE))

\* C1 amended: the same order, where Reconciling runs exactly when a scene
\* graph was given (a forced rebuild without one starts at ValidatingPre).
C1_PhasesInOrder == PhasesFollow(PhaseChain(scene_graph_given))

\* A rebuild that reconciled, repaired and came to Done.
C1_FullRebuildDone ==
    pc = "Done" /\ Repaired /\ InSeq(phases, "Reconciling")

\* C2: sdk.save_scene is called only when the most recent validation report
\* of the scene is export_ready; when the report made after AutoRepair has a
\* FAIL category the call fails with a save error that lists the status of
\* every category, and the exporter never writes the destination.
C2_ExportOnlyWhenReady ==
    /\ (pc = "Exporting" \/ dest \in {"exported", "export_failed"}) =>
          (report.present /\ NoFail(report))
    /\ (InSeq(phases, "ValidatingPost") /\ ~NoFail(info.validation_report_after)) =>
          /\ pc = "Failed"
          /\ error.kind = "FBXSaveError"
          /\ error.message = "validation_failed"
          /\ {x[1] : x \in error.summary} = Range(Categories)
          /\ \E x \in error.summary : x[2] = "FAIL"
          /\ dest = "absent"

\* A call that failed on the post-repair report.
C2_FailedAfterRepair ==
    pc = "Failed" /\ Repaired /\ ~NoFail(info.validation_report_after)

\* What Done takes: the write succeeded, the file was reloaded, its report
\* is export_ready and its metrics are the baseline's.
RoundTripClean ==
    /\ dest = "exported"
    /\ roundtrip.loaded
    /\ NoFail(roundtrip.report.validation)
    /\ roundtrip.report.validation.metrics = baseline_metrics

C4_SamePathRejectedFirst ==
    (pc # "Idle" /\ SameFile(source_path, target_path)) =>
        /\ pc = "Failed"
        /\ error.message = "distinct_paths"
        /\ managers.created = 0
        /\ dest = "absent"

\* ------------------------------------------------ reconciliation claims
\* The lists of SceneExportDiagnostics (the call logs left out).
DiagLists ==
    {"created", "reparented", "removed_orphans", "pruned",
     "attribute_updates", "transform_updates"}

ModelUid(m) == model.nodes[m].uid

\* C5: after _apply_scene_graph_changes the store tree under the root has the
\* structure of the model: every model node's uid names a store node,
\* distinct model nodes name distinct store nodes, the store parent of a
\* non-root model node is the store node of its model parent, and every store
\* node reachable from the store root is the store node of a model node.
C5_StoreMatchesModel ==
    rphase = "reconciled" =>
        /\ IsTree(store)
        /\ \A m \in DOMAIN model.nodes : ModelUid(m) \in DOMAIN store.kids
        /\ \A m1, m2 \in DOMAIN model.nodes :
              ModelUid(m1) = ModelUid(m2) => m1 = m2
        /\ \A m \in DOMAIN model.nodes \ {model.root} :
              store.parent[ModelUid(m)] = ModelUid(_find_parent(model, m))
        /\ \A u \in Range(Preorder(store.kids, store.root)) :
              \E m \in DOMAIN model.nodes : ModelUid(m) = u

\* C6: reconciliation is idempotent: a second run of
\* _apply_scene_graph_changes with the same model, store and diagnostics
\* makes no list of the diagnostics grow.
C6_SecondRunAddsNothing ==
    rphase = "again" => \A f \in DiagLists : Len(diag[f]) = prevLens[f]

\* C7: when every model node's uid resolves in the store and the model has
\* the structure of the store, reconciliation records no creation, no
\* reparent and no prune, and records attribute and transform updates only
\* for the nodes whose attribute or transform differs from the store's.
C7_NoChangeNoRecords ==
    (rphase = "reconciled" /\ pre.allResolved /\ pre.sameStructure) =>
        /\ diag.created = <<>>
        /\ diag.reparented = <<>>
        /\ diag.pruned = <<>>
        /\ \A i \in DOMAIN diag.attribute_updates :
              \E m \in pre.changedAttr :
                 pre.model.nodes[m].uid = diag.attribute_updates[i].node
        /\ \A i \in DOMAIN diag.transform_updates :
              \E m \in pre.changedTransform :
                 pre.model.nodes[m].uid = diag.transform_updates[i].node

\* C8: right after _prune_unused_nodes prunes a node, every node that was a
\* child of the pruned node is a child of the pruned node's former parent,
\* and the pruned node has no parent.
C8_PruneMovesChildrenUp ==
    \A i \in DOMAIN diag.pruneLog :
        LET e == diag.pruneLog[i]
        IN /\ e.parent_after[e.node] = NONE
           /\ ~InSeq(e.kids_after[e.parent], e.node)
           /\ \A k \in DOMAIN e.children :
                 /\ e.parent_after[e.children[k]] = e.parent
                 /\ InSeq(e.kids_after[e.parent], e.children[k])

\* A reconciliation pruned a node that had children.
C8_PrunedNodeWithChildren ==
    \E i \in DOMAIN diag.pruneLog : diag.pruneLog[i].children # <<>>

\* C9: reconciliation never passes the store root to AddChild as the child,
\* and the store root has no parent and is in no node's child list.
C9_RootNeverAChild ==
    /\ store.parent[store.root] = NONE
    /\ \A n \in DOMAIN store.kids : ~InSeq(store.kids[n], store.root)
    /\ \A i \in DOMAIN diag.addLog : diag.addLog[i][2] # store.root

\* C10: after reconciliation the store children of every model node's store
\* node are the store nodes of the model node's children, in the same order.
C10_ChildOrderFollowsModel ==
    rphase = "reconciled" =>
        \A m \in DOMAIN model.nodes :
            /\ ModelUid(m) \in DOMAIN store.kids
            /\ store.kids[ModelUid(m)] =
                 [k \in DOMAIN model.nodes[m].children |->
                     ModelUid(model.nodes[m].children[k])]

\* ------------------------------------------------------ manager claims
\* The managers of an owner that no Destroy() has reached.
Live(owner) ==
    {m \in DOMAIN handles : handles[m].owner = owner /\ handles[m].destroyed = 0}

C12_CopyFastPath ==
    (pc # "Idle" /\ abspath(source_path) # abspath(target_path)) =>
        IF ~scene_graph_given /\ ~force_rebuild
        THEN /\ info.mode = "copy"
             /\ pc \in {"Done", "Failed"}
             /\ managers.created = 0 /\ handles = <<>>
             /\ phases = <<>>
             /\ ~report.present /\ ~roundtrip.called
             /\ info.auto_repairs = <<>>
             /\ pc = "Done" => (dest = "copied" /\ dest_file = file)
             /\ pc = "Failed" => (error.message = "copy_failed" /\ dest = "absent")
        ELSE /\ info.mode = "rebuild"
             /\ dest # "copied"
             /\ managers.created = 1

\* A copy that has been made.
C12_Copied ==
    /\ pc = "Done" /\ dest = "copied" /\ dest_file = file
    /\ ~scene_graph_given /\ ~force_rebuild

\* C13: no step of save_scene_graph_as changes the content of the source
\* file.
C13_SourceNeverWritten == [][file' = file]_vars

\* ------------------------------------------------- validation and repair
\* The issues of a report, of every category.
AllIssues(rep) ==
    UNION {Range(rep.categories[Categories[k]]) : k \in DOMAIN Categories}

FailCodes(rep) == {i.code : i \in {j \in AllIssues(rep) : j.severity = "FAIL"}}

HasWarn(rep) == \E i \in AllIssues(rep) : i.severity = "WARN"

Revalidated == InSeq(phases, "ValidatingPost")

\* C15: a report is export-ready exactly when no category has a FAIL issue;
\* a first report whose issues are warnings only sends the call neither to
\* the repairs nor to a validation failure, and a round trip whose report
\* has warnings only and no metric difference ends Done.
C15_WarningsDoNotBlock ==
    /\ \A rep \in {report, info.validation_report_before,
                    info.validation_report_after, roundtrip.report.validation} :
           export_ready(rep) <=> FailCodes(rep) = {}
    /\ (info.validation_report_before.present
          /\ FailCodes(info.validation_report_before) = {})
       => /\ pc \notin {"ValidatingPre", "AutoRepairing", "ValidatingPost"}
          /\ ~InSeq(phases, "AutoRepairing")
          /\ error.message # "validation_failed"
    /\ (roundtrip.loaded /\ FailCodes(roundtrip.report.validation) = {}
          /\ roundtrip.report.metrics_diff = <<>>)
       => pc = "Done"

\* A call that ended Done on reports that held warnings and no failure.
C15_DoneWithWarnings ==
    /\ pc = "Done"
    /\ HasWarn(info.validation_report_before)
    /\ FailCodes(info.validation_report_before) = {}
    /\ HasWarn(roundtrip.report.validation)
    /\ ~InSeq(phases, "AutoRepairing")

\* The codes AutoRepair has a branch for.
Recognized ==
    {"globals.axis", "globals.system_unit", "globals.time_mode", "globals.frame_rate",
     "globals.time_span", "skin.cluster_matrix", "skin.cluster_link_matrix",
     "skin.bind_pose_missing", "skin.bind_pose_empty"}

\* The codes of the failures the repair marked as fixed.
FixedCodes(rep) ==
    {i.code : i \in {j \in AllIssues(rep) : /\ j.severity = "FAIL"
                                             /\ j.code \in Recognized
                                             /\ j.fix_applied # ""}}

\* C17: a failure with a recognized code that AutoRepair marked as fixed is
\* not reported again by the validation that follows the repair.
C17_RepairConverges ==
    (repaired.done /\ Revalidated)
    => FixedCodes(repaired.report) \cap FailCodes(info.validation_report_after) = {}

HasBindPose(sc) == \E k \in DOMAIN sc.poses : sc.poses[k].bind

Coded(rep, code) == {i \in Range(rep.categories["skin"]) : i.code = code}

\* The scene the first validation saw.
Validated == IF repaired.done THEN repaired.from ELSE scene

\* C18: for a scene with no bind pose the first validation fails category
\* skin with skin.bind_pose_missing; the repair leaves the scene with a bind
\* pose and marks the issue; the validation that follows reports no
\* skin.bind_pose_missing.
C18_MissingBindPoseRepaired ==
    (info.validation_report_before.present /\ ~HasBindPose(Validated))
    => /\ status(info.validation_report_before, "skin") = "FAIL"
       /\ Coded(info.validation_report_before, "skin.bind_pose_missing") # {}
       /\ repaired.done
          => /\ HasBindPose(scene)
             /\ Coded(repaired.report, "skin.bind_pose_missing") # {}
             /\ \A i \in Coded(repaired.report, "skin.bind_pose_missing") :
                    i.fix_applied = "Bind pose reconstructed."
       /\ Revalidated
          => /\ Coded(info.validation_report_after, "skin.bind_pose_missing") = {}
             /\ Coded(info.validation_report_after, "skin.bind_pose_empty") = {}

\* A scene that had no bind pose, repaired and validated again with a skin
\* category that does not fail.
C18_BindPoseRestored ==
    /\ repaired.done /\ Revalidated
    /\ ~HasBindPose(repaired.from)
    /\ status(info.validation_report_after, "skin") # "FAIL"

BindIssues(rep) ==
    {k \in DOMAIN rep.categories["skin"] :
        rep.categories["skin"][k].code \in {"skin.bind_pose_missing", "skin.bind_pose_empty"}}

PoseRepairs(rep) == {k \in DOMAIN rep.repairs : rep.repairs[k].object = "<poses>"}

\* C19: when the report has at least one skin.bind_pose_missing or
\* skin.bind_pose_empty issue the repair adds exactly one pose, a bind pose
\* with one entry per node under the root, logs exactly one "<poses>" repair
\* and marks every such issue; otherwise it adds no pose and logs none.
C19_OneBindPosePerRepair ==
    repaired.done
    => LET old == repaired.from.poses
           rep == repaired.report
       IN IF BindIssues(rep) # {}
          THEN /\ Len(scene.poses) = Len(old) + 1
               /\ SubSeq(scene.poses, 1, Len(old)) = old
               /\ scene.poses[Len(old) + 1] =
                      [bind |-> TRUE, count |-> Len(uid_mapping(store))]
               /\ Cardinality(PoseRepairs(rep)) = 1
               /\ \A k \in BindIssues(rep) :
                      rep.categories["skin"][k].fix_applied = "Bind pose reconstructed."
          ELSE /\ scene.poses = old
               /\ PoseRepairs(rep) = {}

\* A repair of a scene whose report had two bind-pose issues, in a hierarchy
\* of more than one node.
C19_TwoIssuesOnePose ==
    /\ repaired.done
    /\ Cardinality(BindIssues(repaired.report)) = 2
    /\ Cardinality(DOMAIN store.kids) = 2
    /\ Len(scene.poses) = 3

Unrecognized(rep) == {i \in AllIssues(rep) : i.code \notin Recognized}

\* The issues of a report the repair marked.
Marked(rep) == {i \in AllIssues(rep) : i.fix_applied # ""}

\* What no branch of the repair writes: the mesh, its polygons, the skin
\* and the links of its clusters.
Untouched(sc) ==
    <<sc.mesh.present, sc.mesh.polygon_count, sc.mesh.skinned,
      [c \in DOMAIN sc.mesh.clusters |-> sc.mesh.clusters[c].link]>>

\* C20: the repair leaves an issue whose code it does not recognize unmarked,
\* logs no repair for it and does not change what it is about; when such an
\* issue is a failure the validation that follows reports it again and the
\* call ends Failed on validation, with nothing exported.
C20_UnrecognizedUntouched ==
    repaired.done
    => /\ \A i \in Unrecognized(repaired.report) : i.fix_applied = ""
       /\ \A k \in DOMAIN repaired.report.repairs :
              \E i \in Marked(repaired.report) :
                 /\ i.code \in Recognized
                 /\ i.fix_applied = repaired.report.repairs[k].action
                 /\ i.object_path = repaired.report.repairs[k].object
       /\ Untouched(scene) = Untouched(repaired.from)
       /\ (Revalidated /\ \E i \in Unrecognized(repaired.report) : i.severity = "FAIL")
          => /\ \A i \in Unrecognized(repaired.report) :
                    i.severity = "FAIL" => i \in AllIssues(info.validation_report_after)
             /\ pc = "Failed"
             /\ error.message = "validation_failed"
             /\ dest = "absent"
             /\ ~InSeq(phases, "Exporting")

\* A call that failed after a repair that fixed a recognized failure and
\* left an unrecognized one.
C20_FailedOnUnrecognized ==
    /\ repaired.done /\ pc = "Failed"
    /\ Marked(repaired.report) # {}
    /\ \E i \in Unrecognized(repaired.report) : i.severity = "FAIL"

\* ---------------------------------------------------- status and diff
Severity(level) == {k \in DOMAIN probe.issues : probe.issues[k].severity = level}

\* C14: the status of a category report is FAIL exactly when it has a FAIL
\* issue, WARN exactly when it has no FAIL issue and has a WARN issue, and
\* PASS otherwise, the empty report included.
C14_StatusIsWorstSeverity ==
    (probe.kind = "issues" /\ probe.step = 1)
    => /\ probe.status = "FAIL" <=> Severity("FAIL") # {}
       /\ probe.status = "WARN" <=> (Severity("FAIL") = {} /\ Severity("WARN") # {})
       /\ probe.status = "PASS" <=> (Severity("FAIL") = {} /\ Severity("WARN") = {})

\* The status of a report whose FAIL issue comes after a WARN and before a
\* PASS issue.
C14_FailAmongOthers ==
    /\ probe.kind = "issues" /\ probe.step = 1
    /\ Len(probe.issues) = 3
    /\ probe.issues[1].severity = "WARN"
    /\ probe.issues[2].severity = "FAIL"
    /\ probe.issues[3].severity = "PASS"
    /\ probe.status = "FAIL"

\* C16: a.diff(b) is empty exactly when b.diff(a) is, and exactly when a and
\* b are equal; the two lists name the same metrics, with expected and
\* actual exchanged.
C16_DiffSymmetric ==
    (probe.kind = "metrics" /\ probe.step = 1)
    => /\ probe.forward = <<>> <=> probe.backward = <<>>
       /\ probe.forward = <<>> <=> probe.lhs = probe.rhs
       /\ Len(probe.forward) = Len(probe.backward)
       /\ \A k \in DOMAIN probe.forward :
              /\ probe.forward[k].metric = probe.backward[k].metric
              /\ probe.forward[k].expected = probe.backward[k].actual
              /\ probe.forward[k].actual = probe.backward[k].expected

\* Two SceneMetrics compared that differ in a mesh only one has and in a
\* layer only one mesh has.
C16_MeshAndLayerDiffer ==
    /\ probe.kind = "metrics" /\ probe.step = 1
    /\ \E k \in DOMAIN probe.forward :
          probe.forward[k].metric = <<"mesh", "/RootNode/Head">>
    /\ \E k \in DOMAIN probe.forward :
          /\ probe.forward[k].metric = <<"mesh", "/RootNode/Body", "layer", "uv0:0">>
          /\ probe.forward[k].actual = <<>>

\* ------------------------------------------------------- the editor
\* How often node n occurs in the children lists of the model.
Occurrences(mdl, n) ==
    Cardinality({x \in UNION {{<<q, i>> : i \in DOMAIN mdl.nodes[q].children} :
                                q \in DOMAIN mdl.nodes} :
                    mdl.nodes[x[1]].children[x[2]] = n})

\* Node n reaches the root by at most `steps` steps to a parent.
RECURSIVE ReachesRoot(_, _, _)
ReachesRoot(mdl, n, steps) ==
    \/ n = mdl.root
    \/ /\ steps > 0
       /\ _find_parent(mdl, n) # NONE
       /\ ReachesRoot(mdl, _find_parent(mdl, n), steps - 1)

ModelIsTree(mdl) ==
    \/ mdl.root = NONE /\ DOMAIN mdl.nodes = {}
    \/ /\ mdl.root \in DOMAIN mdl.nodes
       /\ \A n \in DOMAIN mdl.nodes :
             /\ Range(mdl.nodes[n].children) \subseteq DOMAIN mdl.nodes
             /\ Occurrences(mdl, n) = IF n = mdl.root THEN 0 ELSE 1
             /\ ReachesRoot(mdl, n, Cardinality(DOMAIN mdl.nodes))

\* C21: after every sequence of edits the model is a tree: every node but
\* the root is in exactly one children list exactly once and reaches the
\* root; a reparent of a node to itself or to one of its descendants leaves
\* the model as it is.
C21_ModelStaysATree ==
    /\ ModelIsTree(model)
    /\ \A node, target \in DOMAIN model.nodes :
          (node = target \/ _is_descendant(model, node, target))
          => _reparent_to_target(model, node, target) = model

\* A model in which a node the editor added has got a child by a reparent:
\* the added node could be asked to go under that child.
C21_ReparentedUnderNewNode ==
    \E node, target \in DOMAIN model.nodes :
        /\ model.nodes[node].uid = NONE
        /\ InSeq(model.nodes[node].children, target)
        /\ model.nodes[target].uid # NONE

\* ------------------------------------------------------- the validator
\* What a step that runs a validation does.
ValidationLeaves ==
    pc \in {"ValidatingPre", "ValidatingPost"}
    => /\ store' = store
       /\ scene' = scene
       /\ report'.present
       /\ DOMAIN report'.categories =
             {"globals", "nodes", "geometry", "skin", "materials", "animation",
              "constraints", "connections"}
       /\ \A c \in DOMAIN report'.categories :
             report'.categories[c] = <<>> => status(report', c) = "PASS"

\* C22: a validation leaves the scene as it was, hierarchy and content, and
\* its report holds exactly the eight categories globals, nodes, geometry,
\* skin, materials, animation, constraints and connections, each category
\* without issues with status PASS.
C22_ValidateReadsOnly == [][ValidationLeaves]_vars

\* A first validation that found skin issues and no material issue.
C22_ValidatedWithFindings ==
    /\ phases = <<"ValidatingPre">>
    /\ report.present
    /\ report.categories["skin"] # <<>>
    /\ report.categories["materials"] = <<>>

\* C23: the canonical settings the call validates and repairs with are those
\* of the scene it loaded: that scene gets no globals.axis,
\* globals.system_unit or globals.time_mode failure, and the repair leaves
\* its axis system, unit and time mode as they were.
C23_CanonicalFromSource ==
    info.validation_report_before.present
    => /\ canonical.axis_system = Validated.axis
       /\ canonical.system_unit = Validated.unit
       /\ canonical.time_mode = Validated.time_mode
       /\ FailCodes(info.validation_report_before)
             \cap {"globals.axis", "globals.system_unit", "globals.time_mode"} = {}
       /\ repaired.done
          => /\ scene.axis = repaired.from.axis
             /\ scene.unit = repaired.from.unit
             /\ scene.time_mode = repaired.from.time_mode

\* ------------------------------------------------------- the round trip
\* The entries of a metrics diff for metric `label`.
DiffEntries(entries, label) ==
    {k \in DOMAIN entries : entries[k].metric = <<label>>}

\* C24: when a scalar metric of the reloaded export differs from the
\* baseline the call ends Failed and the metrics diff has one entry for it,
\* expected the baseline's value and actual the reloaded scene's; the
\* baseline is the metrics of the last validation before the export, so a
\* reload that finds the exported scene shows no difference.
C24_RoundTripDiffAgainstBaseline ==
    roundtrip.loaded
    => LET rt == roundtrip.report
           reloaded == rt.validation.metrics
       IN /\ baseline_metrics = IF Repaired THEN info.validation_report_after.metrics
                                ELSE info.validation_report_before.metrics
          /\ \A k \in DOMAIN ScalarMetrics :
                LET label == ScalarMetrics[k]
                IN IF reloaded[label] # baseline_metrics[label]
                   THEN /\ pc = "Failed"
                        /\ error.message = "roundtrip_failed"
                        /\ Cardinality(DiffEntries(rt.metrics_diff, label)) = 1
                        /\ \A e \in DiffEntries(rt.metrics_diff, label) :
                              /\ rt.metrics_diff[e].expected = baseline_metrics[label]
                              /\ rt.metrics_diff[e].actual = reloaded[label]
                              /\ error.metrics_diff[e] = rt.metrics_diff[e]
                   ELSE DiffEntries(rt.metrics_diff, label) = {}
          /\ reloaded = validate(canonical, scene, store).metrics
             => rt.metrics_diff = <<>>

\* A call that repaired the scene, exported it and failed on a reload with
\* one material more than the baseline.
C24_MaterialCountDiffers ==
    /\ pc = "Failed" /\ Repaired /\ roundtrip.loaded
    /\ \E e \in DiffEntries(roundtrip.report.metrics_diff, "material_count") :
          /\ roundtrip.report.metrics_diff[e].expected = 0
          /\ roundtrip.report.metrics_diff[e].actual = 1
    /\ baseline_metrics.bind_pose_count # info.validation_report_before.metrics.bind_pose_count

\* ---------------------------------------------------------- the prune
\* The store nodes sync used: the nodes the model's uids name after it.
UsedUids == {ModelUid(m) : m \in DOMAIN model.nodes}

\* C25: after a reconciliation every node of the loaded store that is not
\* the root and was not used by sync is pruned: it is in pruned_nodes, it
\* has no parent, and the children it had were given to its former parent.
C25_UnusedNodesPruned ==
    rphase = "reconciled"
    => \A u \in DOMAIN pre.loaded.kids \ ({pre.loaded.root} \cup UsedUids) :
          /\ store.parent[u] = NONE
          /\ \E i \in DOMAIN diag.pruneLog :
                /\ diag.pruneLog[i].node = u
                /\ InSeq(diag.pruned, u)
                /\ \A k \in DOMAIN diag.pruneLog[i].children :
                      diag.pruneLog[i].parent_after[diag.pruneLog[i].children[k]]
                         = diag.pruneLog[i].parent

\* ------------------------------------------------------ new model nodes
\* The model nodes that had no uid when the reconciliation began.
NewNodes == {m \in DOMAIN pre.model.nodes : pre.model.nodes[m].uid = NONE}

Creations(u) == {i \in DOMAIN diag.created : diag.created[i].node = u}

\* C26: in the reconciliation of a model whose root the editor added, only
\* the root of the model resolves to the store root, and every other model
\* node that had no uid gets one store node created for it, under the store
\* node of its parent, whose fresh uid it receives.
C26_NewNodesCreatedOnce ==
    (rphase = "reconciled" /\ saves = 1 /\ pre.model.root \in NewNodes)
    => /\ \A m \in DOMAIN model.nodes : ModelUid(m) = store.root => m = model.root
       /\ \A m \in NewNodes \ {model.root} :
             /\ ModelUid(m) \notin DOMAIN pre.loaded.kids
             /\ Cardinality(Creations(ModelUid(m))) = 1
             /\ \A i \in Creations(ModelUid(m)) :
                   diag.created[i].parent = ModelUid(_find_parent(model, m))

\* ------------------------------------------------------------ parent_uid
\* The model with the parent_uid fields replaced by those of `links`.
WithParentUids(mdl, links) ==
    [mdl EXCEPT !.nodes = Table([m \in DOMAIN mdl.nodes |->
                             [mdl.nodes[m] EXCEPT !.parent_uid = links[m]]])]

\* What a Save As of model mdl would leave: the store and the diagnostics.
Outcome(mdl) ==
    LET s == _apply_scene_graph_changes(load_scene(file, FALSE, nextUid), mdl,
                                        EmptyDiagnostics, nextUid)
    IN [st |-> s.st, diagnostics |-> [f \in DiagLists |-> s[f]]]

\* C27: reconciliation does not depend on parent_uid: the model and every
\* model that differs from it in parent_uid fields only leave the same store
\* and the same diagnostics.
C27_ParentUidIgnored ==
    (model.root # NONE /\ fileOK)
    => \A links \in [DOMAIN model.nodes -> {NONE, FirstUid}] :
          Outcome(WithParentUids(model, links)) = Outcome(model)

\* ------------------------------------------------------- the path index
\* The model the last reconciliation began with is the one the inspector
\* collects from the loaded store, but for the uids, of which none resolves.
UneditedStale ==
    LET captured == collect(pre.loaded)
    IN /\ DOMAIN pre.model.nodes = DOMAIN captured.nodes
       /\ pre.model.root = captured.root
       /\ \A m \in DOMAIN captured.nodes :
             /\ pre.model.nodes[m].children = captured.nodes[m].children
             /\ pre.model.nodes[m].original_path = captured.nodes[m].original_path
             /\ pre.model.nodes[m].attribute_type = captured.nodes[m].attribute_type
             /\ pre.model.nodes[m].transform = captured.nodes[m].transform
             /\ pre.model.nodes[m].uid # NONE
             /\ pre.model.nodes[m].uid \notin DOMAIN pre.loaded.kids

\* C28: the reconciliation of an unedited model none of whose uids resolves
\* resolves every model node to the store node at its original_path: it
\* creates no node, removes no orphan, prunes nothing, leaves the hierarchy
\* as loaded and gives each model node the uid of the store node at its path.
C28_StaleUidsResolveByPath ==
    (rphase = "reconciled" /\ UneditedStale)
    => /\ diag.created = <<>>
       /\ diag.removed_orphans = <<>>
       /\ diag.pruned = <<>>
       /\ store.kids = pre.loaded.kids
       /\ store.parent = pre.loaded.parent
       /\ \A m \in DOMAIN model.nodes :
             ModelUid(m) = path_mapping(pre.loaded)[model.nodes[m].original_path]

\* Such a reconciliation of a model of three nodes.
C28_StaleModelOfThree ==
    /\ rphase = "reconciled" /\ UneditedStale
    /\ Cardinality(DOMAIN model.nodes) = 3
    /\ \E m \in DOMAIN model.nodes : Len(model.nodes[m].original_path) = 2

\* ------------------------------------------------ the diagnostics log
\* How many entries of a list satisfy a test.
Count(list, Test(_)) == Cardinality({i \in DOMAIN list : Test(list[i])})

\* The entries that account for AddChild(child) on parent: a creation of
\* child under parent, or a reparent of child whose new parent is parent.
AddEntries(parent, child) ==
    LET Made(e) == e.node = child /\ e.parent = parent
        Moved(e) == e.node = child /\ e.new_parent = parent
    IN Count(diag.created, Made) + Count(diag.reparented, Moved)

\* The entries that account for RemoveChild(child) on parent: an orphan
\* removal of child from parent, a reparent of child whose previous parent
\* is parent, or the prune of child, whose parent was parent.
RemoveEntries(parent, child) ==
    LET Orphaned(e) == e.node = child /\ e.parent = parent
        Moved(e) == e.node = child /\ e.previous_parent = parent
    IN Count(diag.removed_orphans, Orphaned) + Count(diag.reparented, Moved)
       + Cardinality({i \in DOMAIN diag.pruned :
                        diag.pruned[i] = child /\ diag.pruneLog[i].parent = parent})

\* Every list of the diagnostics a further reconciliation returns begins
\* with the list it was given.
ListsOnlyGrow ==
    LET s == _apply_scene_graph_changes(store, model, diag, nextUid)
    IN \A f \in DiagLists :
          /\ Len(s[f]) >= Len(diag[f])
          /\ SubSeq(s[f], 1, Len(diag[f])) = diag[f]

\* C29: after a reconciliation every AddChild and every RemoveChild call it
\* made on the store has an entry of its own in created_nodes,
\* reparented_nodes, removed_orphans or pruned_nodes that names the node and
\* the parents involved, and a reconciliation only appends to the lists.
C29_EveryMutationLogged ==
    rphase \in {"reconciled", "again"}
    => /\ \A i \in DOMAIN diag.addLog :
             LET Same(e) == e = diag.addLog[i]
             IN Count(diag.addLog, Same)
                   <= AddEntries(diag.addLog[i][1], diag.addLog[i][2])
       /\ \A i \in DOMAIN diag.removeLog :
             LET Same(e) == e = diag.removeLog[i]
             IN Count(diag.removeLog, Same)
                   <= RemoveEntries(diag.removeLog[i][1], diag.removeLog[i][2])
       /\ Len(diag.pruneLog) = Len(diag.pruned)
       /\ (rphase = "again" => \A f \in DiagLists : Len(diag[f]) >= prevLens[f])
       /\ (IsTree(store) /\ model.root # NONE => ListsOnlyGrow)

\* A reconciliation that created a node, moved another and removed an
\* orphan or pruned a node.
C29_CreatedMovedAndRemoved ==
    /\ rphase = "reconciled"
    /\ diag.created # <<>>
    /\ \E i \in DOMAIN diag.reparented : diag.reparented[i].previous_parent # NONE
    /\ diag.removeLog # <<>>
    /\ Len(diag.addLog) >= 2

\* --------------------------------------------------------- object paths
\* The node of the probe is named, is not the root, and no two children of
\* one node of its hierarchy have the same name.
NamedBelowRoot ==
    /\ probe.node # probe.tree.root
    /\ probe.tree.name[probe.node] # ""
    /\ \A a, b \in DOMAIN probe.tree.parent :
          (a # b /\ probe.tree.parent[a] = probe.tree.parent[b])
          => probe.tree.name[a] # probe.tree.name[b]

\* C30: for a named node n below the root of a hierarchy whose sibling
\* names are distinct, _find_node_by_path(root, _node_path(n)) is n, the
\* node whose cluster matrices AutoRepair is to rebuild.
C30_PathFindsItsNode ==
    (probe.kind = "path" /\ probe.step = 1 /\ NamedBelowRoot)
    => probe.found = probe.node

\* ------------------------------------------------------- read failures
\* C31: when an accessor for a mesh layer, a cluster, a material, an
\* animation stack or a constraint raises while a category check calls it,
\* validate() still returns a report with the eight categories.
C31_ReadFailureNeverAborts ==
    (/\ probe.kind = "reads" /\ probe.step = 1
     /\ probe.failing # "local transform"
     /\ Callers(probe.content, probe.failing) # {})
    => /\ ~probe.raised
       /\ probe.report.present
       /\ DOMAIN probe.report.categories = Range(Categories)

\* ------------------------------------------------ the attribute label
\* The label of the probe is a joint role that the SDK resolves.
RoleResolves ==
    /\ probe.label \in {"Root", "Limb", "LimbNode", "Effector"}
    /\ probe.label \in DOMAIN probe.resolved
    /\ probe.resolved[probe.label] = "value"

\* C32: _apply_node_attribute leaves a node given a joint role that
\* resolves with a skeleton attachment of that role, a node with a skeleton
\* attachment given the label Node with no attachment, and the attachment
\* of the node as it was in every other case.
C32_AttributeTranslation ==
    (probe.kind = "attribute" /\ probe.step = 1)
    => probe.after =
          (CASE RoleResolves -> probe.label
             [] ~RoleResolves /\ probe.label = "Node"
                /\ probe.before \in {"Root", "Limb", "LimbNode", "Effector"} -> "NoAttr"
             [] OTHER -> probe.before)

\* A mesh node given a joint role that resolves, while another role does
\* not.
C32_MeshBecomesJoint ==
    /\ probe.kind = "attribute" /\ probe.step = 1
    /\ probe.before = "Mesh" /\ probe.label = "Limb" /\ probe.after = "Limb"
    /\ "Root" \notin DOMAIN probe.resolved

\* --------------------------------------------- the editing operations
\* The children lists of the nodes outside `touched` are those of before,
\* and so are the other fields of every node that was there before, but
\* for the parent_uid the refresh rewrites.
SameElsewhere(before, after, touched) ==
    \A m \in DOMAIN before.nodes \cap DOMAIN after.nodes :
        /\ m \notin touched => after.nodes[m].children = before.nodes[m].children
        /\ [after.nodes[m] EXCEPT !.parent_uid = NONE, !.children = <<>>]
              = [before.nodes[m] EXCEPT !.parent_uid = NONE, !.children = <<>>]

\* The last operation moved node n from its parent to the end of the
\* children of node t.
MovedToEnd(before, after, n, t) ==
    LET p == _find_parent(before, n)
    IN /\ DOMAIN after.nodes = DOMAIN before.nodes
       /\ after.root = before.root
       /\ after.nodes[t].children =
             Append(IF p = t THEN ListRemove(before.nodes[t].children, n)
                    ELSE before.nodes[t].children, n)
       /\ p # t => after.nodes[p].children = ListRemove(before.nodes[p].children, n)
       /\ SameElsewhere(before, after, {p, t})

\* The last operation removed node n and handed its children on.
RemovedOne(before, after, n) ==
    LET p == _find_parent(before, n)
        kids == before.nodes[n].children
    IN IF p # NONE
       THEN /\ DOMAIN after.nodes = DOMAIN before.nodes \ {n}
            /\ after.root = before.root
            /\ after.nodes[p].children =
                  ListRemove(before.nodes[p].children, n) \o kids
            /\ SameElsewhere(before, after, {p})
       ELSE kids # <<>>
            => /\ DOMAIN after.nodes = DOMAIN before.nodes \ {n}
               /\ after.root = Head(kids)
               /\ after.nodes[Head(kids)].children =
                     before.nodes[Head(kids)].children \o Tail(kids)
               /\ SameElsewhere(before, after, {Head(kids)})

\* The last operation added node n, with no uid, under node t.
AddedOne(before, after, n, t) ==
    /\ n \notin DOMAIN before.nodes
    /\ DOMAIN after.nodes = DOMAIN before.nodes \cup {n}
    /\ after.root = before.root
    /\ after.nodes[n].uid = NONE /\ after.nodes[n].children = <<>>
    /\ after.nodes[t].children = Append(before.nodes[t].children, n)
    /\ SameElsewhere(before, after, {t})
    /\ \A c \in Range(before.nodes[t].children) :
          editor.names[n] # editor.last.names[c]

Edits == {"rename", "attribute", "transform", "add", "reparent", "promote", "remove"}

\* C34: Save As copies the file iff debug mode is off and no edit has
\* succeeded since the document was opened or last saved: an edit that
\* succeeds sets the dirty flag, a rejected one leaves it, a save that
\* succeeds clears it and moves the document path, a save that fails
\* leaves both.
C34_CopyIffClean ==
    LET last == editor.last
    IN /\ (last.op \in Edits /\ last.accepted) => editor.dirty
       /\ (last.op \in Edits /\ ~last.accepted) => editor.dirty = last.dirty
       /\ (last.op = "save" /\ last.accepted)
          => ~editor.dirty /\ editor.path # last.path
       /\ (last.op = "save" /\ ~last.accepted)
          => editor.dirty = last.dirty /\ editor.path = last.path
       /\ last.op = "save"
          => (last.mode = "copy" <=> (~last.debug /\ ~last.dirty))

RepairStage(entry) ==
    IF entry.action = "Bind pose reconstructed." THEN 3
    ELSE IF entry.action = "Skin cluster matrices rebuilt from current pose." THEN 2
    ELSE 1

MarkedIssues(rep) == {i \in AllIssues(rep) : i.fix_applied # ""}

\* C35: after AutoRepair every issue whose fix_applied is set has an entry
\* in report.repairs with that text as its action and the issue's object
\* path as its object, every entry of report.repairs is the entry of at
\* least one such issue, and the entries of the globals repairs come before
\* those of the skin matrices, which come before the bind pose's.
C35_RepairsMatchMarkedIssues ==
    repaired.done
    => LET rep == repaired.report
       IN /\ \A i \in MarkedIssues(rep) :
                 \E k \in DOMAIN rep.repairs :
                    /\ rep.repairs[k].action = i.fix_applied
                    /\ rep.repairs[k].object = i.object_path
          /\ \A k \in DOMAIN rep.repairs :
                 \E i \in MarkedIssues(rep) :
                    /\ rep.repairs[k].action = i.fix_applied
                    /\ rep.repairs[k].object = i.object_path
          /\ \A j, k \in DOMAIN rep.repairs :
                 j < k => RepairStage(rep.repairs[j]) <= RepairStage(rep.repairs[k])

\* A repair that reset two globals and rebuilt the bind pose for two
\* bind-pose issues: three entries for four marked issues.
C35_GlobalsThenBindPose ==
    /\ repaired.done
    /\ Len(repaired.report.repairs) = 3
    /\ Cardinality(BindIssues(repaired.report)) = 2
    /\ RepairStage(repaired.report.repairs[1]) = 1
    /\ RepairStage(repaired.report.repairs[3]) = 3

\* ------------------------------------------------- the canonical time span
ValidSpan(span) == span # <<>> /\ span[1] < span[2]

TimeSpanIssue(rep) ==
    \E k \in DOMAIN rep.categories["globals"] :
        rep.categories["globals"][k].code = "globals.time_span"

CanonicalSpanStep ==
    /\ (pc = "ValidatingPre" /\ pc' # pc)
       => /\ canonical.time_span = <<>>
          /\ canonical'.time_span # <<>> <=> ValidSpan(scene.time_span)
          /\ canonical'.time_span # <<>> => canonical'.time_span = scene.time_span
    /\ (pc = "AutoRepairing" /\ pc' # pc /\ TimeSpanIssue(report))
       => /\ canonical.time_span = <<>>
          /\ scene'.time_span = <<0, GetOneFrameValue>>
          /\ ValidSpan(scene'.time_span)
          /\ TimeSpanIssue(report') /\ ~ValidSpan(scene.time_span)
    /\ (pc = "AutoRepairing" /\ pc' # pc /\ ~TimeSpanIssue(report))
       => scene'.time_span = scene.time_span
    /\ canonical.time_span # <<>> => canonical' = canonical

\* C36: in save_scene_graph_as the first validation captures the canonical
\* time span exactly when the scene's span has start < stop; the
\* globals.time_span repair therefore runs with a canonical span of None
\* and leaves the scene the span (0, one frame), whose start is below its
\* stop; a canonical span once captured is the same after every later
\* step, the round trip included.
C36_TimeSpanFallback == [][CanonicalSpanStep]_vars

\* An export that went through the time span repair and the round trip: the
\* scene has the fallback span, which the second validation captured.
C36_FallbackSpanExported ==
    /\ pc = "Done" /\ roundtrip.loaded
    /\ repaired.done /\ TimeSpanIssue(repaired.report)
    /\ repaired.from.time_span = <<5, 5>>
    /\ scene.time_span = <<0, GetOneFrameValue>>
    /\ canonical.time_span = <<0, GetOneFrameValue>>

\* ------------------------------------------------- the report before repair
\* C37: after AutoRepair every issue of diagnostics.validation_report_before
\* still has fix_applied unset and the report's content is that of the
\* first validation of the scene; the repair log is in
\* diagnostics.auto_repairs.
C37_BeforeReportIsSnapshot ==
    repaired.done
    => /\ \A i \in AllIssues(info.validation_report_before) : i.fix_applied = ""
       /\ info.validation_report_before.categories =
              validate(canonical, repaired.from, store).categories
       /\ info.validation_report_before.repairs = <<>>
       /\ info.auto_repairs = repaired.report.repairs

\* ------------------------------------------------- bind pose findings
\* The places of the issues with a code in the skin category of a report.
SkinIssuesCoded(rep, code) ==
    {k \in DOMAIN rep.categories["skin"] : rep.categories["skin"][k].code = code}

EmptyBindPoses(sc) ==
    {k \in DOMAIN sc.poses : sc.poses[k].bind /\ sc.poses[k].count = 0}

BindPoseFindings(rep, sc) ==
    LET missing == SkinIssuesCoded(rep, "skin.bind_pose_missing")
        empty == SkinIssuesCoded(rep, "skin.bind_pose_empty")
    IN /\ missing # {} <=> ~HasBindPose(sc)
       /\ Cardinality(missing) <= 1
       /\ Cardinality(empty) = Cardinality(EmptyBindPoses(sc))
       /\ missing = {} \/ empty = {}

\* C39: the skin category of a validation has skin.bind_pose_missing exactly
\* when no pose of the validated scene is a bind pose, with or without a
\* skinned mesh, and one skin.bind_pose_empty for each bind pose without
\* entries; no report has both codes.
C39_BindPoseFindings ==
    /\ info.validation_report_before.present
       => BindPoseFindings(info.validation_report_before, Validated)
    /\ Revalidated
       => BindPoseFindings(info.validation_report_after, scene)

\* A scene without a skinned mesh whose only pose is not a bind pose, found
\* to miss its bind pose.
C39_MissingWithoutSkin ==
    /\ info.validation_report_before.present
    /\ ~Validated.mesh.skinned
    /\ Len(Validated.poses) = 1 /\ ~Validated.poses[1].bind
    /\ SkinIssuesCoded(info.validation_report_before, "skin.bind_pose_missing") # {}

====
